---------------------------- MODULE Spec2Model ----------------------------
(***************************************************************************)
(* A model of api_yamdb: the REST API of a review site (users, catalog,    *)
(* reviews, comments) written over Django / Django REST framework.         *)
(*                                                                         *)
(* The repository holds two drafts of the API package: api/ and api/v1/.   *)
(* A deployment routes one of them; the variable draft says which, and is  *)
(* fixed by Init.  Every request handler is one action that runs the       *)
(* whole request: authentication, permission check, object lookup,         *)
(* validation, the database write, and the response, which is left in     *)
(* resp.                                                                   *)
(***************************************************************************)
EXTENDS Integers, Sequences, FiniteSets, TLC

VARIABLES
    draft,       \* "api" or "v1": the package the deployment routes
    now,         \* timezone.now().year
    users,       \* rows of users.CustomUser
    categories,  \* rows of reviews.Category
    genres,      \* rows of reviews.Genre
    titles,      \* rows of reviews.Title (with their Title_genre links)
    reviews,     \* rows of reviews.Review
    comments,    \* rows of reviews.Comment
    outbox,      \* the mails the last request handed to send_mail
    nextId,      \* the next primary key of each table (AUTOINCREMENT)
    resp,        \* the last request and the response it got
    inflight     \* the requests that passed is_valid and have not yet saved

vars == <<draft, now, users, categories, genres, titles, reviews, comments,
          outbox, nextId, resp, inflight>>

db == <<users, categories, genres, titles, reviews, comments>>

-----------------------------------------------------------------------------
(* Bounds of the model.                                                    *)

\* Review rows ever created in one run (their primary keys are 1..MaxReviewId).
MaxReviewId == 2
\* The largest primary key a user row created in one run gets.
MaxUserId == 3
\* The largest primary key a title row created in one run gets.
MaxTitleId == 2

MaxCommentId == 2

-----------------------------------------------------------------------------
(* Values.                                                                 *)

Drafts == {"api", "v1"}

\* A field the request body does not carry.
Missing == "<missing>"
\* SQL NULL in a nullable foreign key, None in a response.
Null == "<null>"
\* request.user of a request without credentials (AnonymousUser).
Anonymous == 0

SAFE_METHODS == {"GET", "HEAD", "OPTIONS"}

USER == "user"
MODERATOR == "moderator"
ADMIN == "admin"
USERS == {USER, MODERATOR, ADMIN}

-----------------------------------------------------------------------------
(* users.models.CustomUser                                                 *)

UserById(id) == CHOOSE u \in users : u.id = id

is_authenticated(caller) == caller # Anonymous

\* AnonymousUser.is_superuser is False.
is_superuser(caller) == caller # Anonymous /\ UserById(caller).is_superuser

is_moderator(u) == u.role = MODERATOR

\* is_admin that looks at the role alone.
is_admin_by_role(u) == u.role = ADMIN

is_admin(u) == u.role = ADMIN \/ u.is_superuser

\* The identities a request can carry: none, or a stored user (a token of a
\* deleted user does not authenticate).
Callers == {Anonymous} \cup {u.id : u \in users}

-----------------------------------------------------------------------------
(* api/v1/permissions.py and api/permissions.py                            *)

\* IsAdminOrReadOnly that admits every authenticated caller.
v1_IsAdminOrReadOnly_has_permission_authenticated(method, caller) ==
    method \in SAFE_METHODS \/ is_authenticated(caller)

v1_IsAdminOrReadOnly_has_permission(method, caller) ==
    IF method \in SAFE_METHODS
    THEN TRUE
    ELSE is_authenticated(caller) /\ is_admin(UserById(caller))

\* IsAdminOrReadOnly without the SAFE_METHODS branch.
api_IsAdminOrReadOnly_has_permission_unsafe(method, caller) ==
    \/ is_superuser(caller)
    \/ (is_authenticated(caller) /\ is_admin(UserById(caller)))

api_IsAdminOrReadOnly_has_permission(method, caller) ==
    IF method \in SAFE_METHODS
    THEN TRUE
    ELSE \/ is_superuser(caller)
         \/ (is_authenticated(caller) /\ is_admin(UserById(caller)))

IsAdminOrReadOnly_has_permission(method, caller) ==
    IF draft = "v1"
    THEN v1_IsAdminOrReadOnly_has_permission(method, caller)
    ELSE api_IsAdminOrReadOnly_has_permission(method, caller)

v1_ContentManagePermission_has_permission(method, caller) ==
    method \in SAFE_METHODS \/ is_authenticated(caller)

api_ContentManagePermission_has_permission(method, caller) ==
    method \in SAFE_METHODS \/ is_authenticated(caller)

ContentManagePermission_has_permission(method, caller) ==
    IF draft = "v1"
    THEN v1_ContentManagePermission_has_permission(method, caller)
    ELSE api_ContentManagePermission_has_permission(method, caller)

\* has_object_permission that looks only at authentication.
v1_ContentManagePermission_has_object_permission_authenticated(method, caller, obj) ==
    method \in SAFE_METHODS \/ is_authenticated(caller)

v1_ContentManagePermission_has_object_permission(method, caller, obj) ==
    IF method \in SAFE_METHODS
    THEN TRUE
    ELSE IF ~is_authenticated(caller)
    THEN FALSE
    ELSE \/ obj.author = caller
         \/ is_moderator(UserById(caller))
         \/ is_admin(UserById(caller))

api_ContentManagePermission_has_object_permission(method, caller, obj) ==
    \/ method \in SAFE_METHODS
    \/ (is_authenticated(caller) /\ obj.author = caller)
    \/ (is_authenticated(caller) /\ is_moderator(UserById(caller)))
    \/ (is_authenticated(caller) /\ is_admin(UserById(caller)))

ContentManagePermission_has_object_permission(method, caller, obj) ==
    IF draft = "v1"
    THEN v1_ContentManagePermission_has_object_permission(method, caller, obj)
    ELSE api_ContentManagePermission_has_object_permission(method, caller, obj)

\* A response: the HTTP status, the entries of the error body (empty on
\* success: a field name, or field.code where one field has several errors)
\* and the body of a success that carries one.
Response(status, errors) ==
    [status |-> status, errors |-> errors, body |-> Null]

Success(status, body) == [status |-> status, errors |-> {}, body |-> body]

\* rest_framework's answer to a refused permission: 401 for a request that
\* carried no credentials, 403 for an authenticated one.
PermissionDenied(caller) ==
    Response(IF is_authenticated(caller) THEN 403 ELSE 401, {"detail"})

\* get_object_or_404 that found nothing.
NotFound == Response(404, {"detail"})

\* An exception no handler catches (IntegrityError, TypeError): the server
\* error page.
ServerError == Response(500, {})

-----------------------------------------------------------------------------
(* reviews.models: lookups                                                 *)

TitleExists(title_id) == \E t \in titles : t.id = title_id

\* Review.objects.filter(title=self.get_title())
ReviewsOfTitle(title_id) == {r \in reviews : r.title = title_id}

\* on_delete=models.CASCADE of Comment.review
CommentsOfReviews(rs) == {c \in comments : \E r \in rs : c.review = r.id}

\* A Review table without the constraint.
unique_review_dropped(rs) == TRUE

\* The unique_review constraint: UniqueConstraint(fields=['author', 'title']).
unique_review(rs) ==
    \A r1, r2 \in rs : (r1.author = r2.author /\ r1.title = r2.title) => r1 = r2

-----------------------------------------------------------------------------
(* ReviewSerializer                                                        *)

\* str(i) of a small natural number.
Str(i) ==
    <<"0", "1", "2", "3", "4", "5", "6", "7", "8", "9", "10", "11", "12">>[i + 1]

\* range(0, 12) in place of range(1, 11).
RATING_VALUES_wide == {<<i, Str(i)>> : i \in 0..11}

\* RATING_VALUES = [(i, str(i)) for i in range(1, 11)]
RATING_VALUES == {<<i, Str(i)>> : i \in 1..10}

\* ChoiceField.choice_strings_to_values: {str(key): key for key in choices}
choice_strings_to_values ==
    [s \in {Str(c[1]) : c \in RATING_VALUES} |->
        (CHOOSE c \in RATING_VALUES : Str(c[1]) = s)[1]]

\* score = serializers.ChoiceField(choices=RATING_VALUES).  A request carries
\* the score as str(data) of its JSON value; the field looks that string up.
score_is_valid(score) == score \in DOMAIN choice_strings_to_values

score_to_internal_value(score) == choice_strings_to_values[score]

\* The field pass of ReviewSerializer.is_valid, as the keys of its error body:
\* text and score are required unless the update is partial, text may not be
\* blank, score must be one of the choices.
ReviewSerializer_field_errors(text, score, partial) ==
    {k \in {"text"} : IF text = Missing THEN ~partial ELSE text = ""}
    \cup {k \in {"score"} :
            IF score = Missing THEN ~partial ELSE ~score_is_valid(score)}

\* validate without the duplicate check.
v1_ReviewSerializer_validate_nocheck(method, caller, title_id) ==
    Response(200, {})

\* ReviewSerializer.validate of api/v1: 400 for a second review of the caller
\* on the title of the path, on POST only.
v1_ReviewSerializer_validate(method, caller, title_id) ==
    IF /\ method = "POST"
       /\ \E r \in reviews : r.author = caller /\ r.title = title_id
    THEN Response(400, {"non_field_errors"})
    ELSE Response(200, {})

\* ReviewSerializer.validate of api/: get_object_or_404 on the title first.
api_ReviewSerializer_validate(method, caller, title_id) ==
    IF ~TitleExists(title_id)
    THEN NotFound
    ELSE IF /\ method = "POST"
            /\ \E r \in reviews : r.author = caller /\ r.title = title_id
    THEN Response(400, {"non_field_errors"})
    ELSE Response(200, {})

ReviewSerializer_validate(method, caller, title_id) ==
    IF draft = "v1"
    THEN v1_ReviewSerializer_validate(method, caller, title_id)
    ELSE api_ReviewSerializer_validate(method, caller, title_id)

-----------------------------------------------------------------------------
(* ReviewViewSet                                                           *)

\* ReviewViewSet.perform_create: the row serializer.save(title=..., author=...)
\* inserts.
NewReview(caller, title_id, text, score) ==
    [id |-> nextId.review, author |-> caller, title |-> title_id,
     text |-> text, score |-> score_to_internal_value(score)]

\* create that neither pre-checks nor is stopped by a constraint.
ReviewViewSet_create_response_unguarded(caller, title_id, text, score) ==
    IF ~ContentManagePermission_has_permission("POST", caller)
    THEN PermissionDenied(caller)
    ELSE IF ReviewSerializer_field_errors(text, score, FALSE) # {}
    THEN Response(400, ReviewSerializer_field_errors(text, score, FALSE))
    ELSE IF ~TitleExists(title_id)
    THEN NotFound
    ELSE Response(201, {})

\* The response of POST /titles/{title_id}/reviews/: check_permissions,
\* serializer.is_valid (fields, then validate), perform_create (get_title, then
\* the INSERT under the unique_review constraint).
ReviewViewSet_create_response(caller, title_id, text, score) ==
    LET field_errors == ReviewSerializer_field_errors(text, score, FALSE)
        validated == ReviewSerializer_validate("POST", caller, title_id)
    IN
    IF ~ContentManagePermission_has_permission("POST", caller)
    THEN PermissionDenied(caller)
    ELSE IF field_errors # {}
    THEN Response(400, field_errors)
    ELSE IF validated.status # 200
    THEN validated
    ELSE IF ~TitleExists(title_id)
    THEN NotFound
    ELSE IF ~unique_review(reviews \cup {NewReview(caller, title_id, text, score)})
    THEN ServerError
    ELSE Response(201, {})

\* The Review table after POST /titles/{title_id}/reviews/ answered r.
ReviewViewSet_create_reviews(r, caller, title_id, text, score) ==
    IF r.status = 201
    THEN reviews \cup {NewReview(caller, title_id, text, score)}
    ELSE reviews

ReviewViewSet_create(caller, title_id, text, score) ==
    LET r == ReviewViewSet_create_response(caller, title_id, text, score) IN
    /\ r.status = 201 => nextId.review <= MaxReviewId
    /\ reviews' = ReviewViewSet_create_reviews(r, caller, title_id, text, score)
    /\ nextId' = IF r.status = 201
                 THEN [nextId EXCEPT !.review = @ + 1]
                 ELSE nextId
    /\ resp' = [op |-> "review_create", status |-> r.status,
                errors |-> r.errors, body |-> Null]
    /\ outbox' = <<>>
    /\ UNCHANGED <<inflight, draft, now, users, categories, genres, titles, comments>>

\* get_object over a queryset of all reviews, whatever the title of the path.
ReviewViewSet_get_object_of_any_title(method, caller, title_id, pk) ==
    IF ~ContentManagePermission_has_permission(method, caller)
    THEN PermissionDenied(caller)
    ELSE IF ~\E r \in reviews : r.id = pk
    THEN NotFound
    ELSE IF ~ContentManagePermission_has_object_permission(
                method, caller, CHOOSE r \in reviews : r.id = pk)
    THEN PermissionDenied(caller)
    ELSE Response(200, {})

\* check_permissions, then GenericAPIView.get_object over
\* ReviewViewSet.get_queryset, then check_object_permissions: the response
\* that stops the request, or 200.
ReviewViewSet_get_object(method, caller, title_id, pk) ==
    IF ~ContentManagePermission_has_permission(method, caller)
    THEN PermissionDenied(caller)
    ELSE IF ~TitleExists(title_id)
    THEN NotFound
    ELSE IF ~\E r \in ReviewsOfTitle(title_id) : r.id = pk
    THEN NotFound
    ELSE IF ~ContentManagePermission_has_object_permission(
                method, caller,
                CHOOSE r \in ReviewsOfTitle(title_id) : r.id = pk)
    THEN PermissionDenied(caller)
    ELSE Response(200, {})

\* serializer.save() of an update: the fields the body carries are written.
UpdatedReview(r, text, score) ==
    [r EXCEPT !.text = IF text = Missing THEN @ ELSE text,
              !.score = IF score = Missing
                        THEN @
                        ELSE score_to_internal_value(score)]

\* The Review table a valid PATCH of review pk writes.
PatchedReviews(pk, text, score) ==
    {IF r.id = pk THEN UpdatedReview(r, text, score) ELSE r : r \in reviews}

\* The response of PATCH /titles/{title_id}/reviews/{pk}/.
ReviewViewSet_partial_update_response(caller, title_id, pk, text, score) ==
    LET got == ReviewViewSet_get_object("PATCH", caller, title_id, pk)
        field_errors == ReviewSerializer_field_errors(text, score, TRUE)
        validated == ReviewSerializer_validate("PATCH", caller, title_id)
    IN
    IF got.status # 200
    THEN got
    ELSE IF field_errors # {}
    THEN Response(400, field_errors)
    ELSE IF validated.status # 200
    THEN validated
    ELSE IF ~unique_review(PatchedReviews(pk, text, score))
    THEN ServerError
    ELSE Response(200, {})

\* The Review table after PATCH /titles/{title_id}/reviews/{pk}/ answered r.
ReviewViewSet_partial_update_reviews(r, pk, text, score) ==
    IF r.status = 200 THEN PatchedReviews(pk, text, score) ELSE reviews

ReviewViewSet_partial_update(caller, title_id, pk, text, score) ==
    LET r == ReviewViewSet_partial_update_response(
                 caller, title_id, pk, text, score)
    IN
    /\ reviews' = ReviewViewSet_partial_update_reviews(r, pk, text, score)
    /\ resp' = [op |-> "review_partial_update", status |-> r.status,
                errors |-> r.errors, body |-> Null]
    /\ outbox' = <<>>
    /\ UNCHANGED <<inflight, draft, now, users, categories, genres, titles, comments,
                   nextId>>

\* The response of DELETE /titles/{title_id}/reviews/{pk}/.
ReviewViewSet_destroy_response(caller, title_id, pk) ==
    LET got == ReviewViewSet_get_object("DELETE", caller, title_id, pk) IN
    IF got.status # 200 THEN got ELSE Response(204, {})

\* The Review table after DELETE /titles/{title_id}/reviews/{pk}/ answered r.
ReviewViewSet_destroy_reviews(r, pk) ==
    IF r.status = 204 THEN {x \in reviews : x.id # pk} ELSE reviews

ReviewViewSet_destroy(caller, title_id, pk) ==
    LET r == ReviewViewSet_destroy_response(caller, title_id, pk) IN
    /\ reviews' = ReviewViewSet_destroy_reviews(r, pk)
    /\ comments' = IF r.status = 204
                   THEN comments \ CommentsOfReviews({x \in reviews : x.id = pk})
                   ELSE comments
    /\ resp' = [op |-> "review_destroy", status |-> r.status,
                errors |-> r.errors, body |-> Null]
    /\ outbox' = <<>>
    /\ UNCHANGED <<inflight, draft, now, users, categories, genres, titles, nextId>>

-----------------------------------------------------------------------------
(* The feedback specification: the review endpoints over a fixed catalog   *)
(* and fixed accounts.                                                     *)

\* No request yet.
NoResp == [op |-> "none", status |-> 0, errors |-> {}, body |-> Null]

Account(id, username, email, role, super, code) ==
    [id |-> id, username |-> username, email |-> email, role |-> role,
     is_superuser |-> super, confirmation_code |-> code]

SeedUsers ==
    {Account(1, "alice", "alice@x.org", USER, FALSE, "k1"),
     Account(2, "bob", "bob@x.org", MODERATOR, FALSE, "k2")}

SeedCategories == {[name |-> "Films", slug |-> "films"]}

SeedGenres == {[name |-> "Drama", slug |-> "drama"]}

SeedTitles ==
    {[id |-> 1, name |-> "Solaris", year |-> 1972, description |-> "",
      genre |-> {"drama"}, category |-> "films"],
     [id |-> 2, name |-> "Stalker", year |-> 1979, description |-> "",
      genre |-> {"drama"}, category |-> "films"]}

\* What the requests of the feedback specification carry.  The title of id 3
\* does not exist.
PathTitleIds == {1, 2, 3}
PathReviewIds == 1..MaxReviewId
TextInputs == {"good", Missing}
ScoreInputs == {"0", "1", "10", "11", Missing}

Init ==
    /\ draft \in Drafts
    /\ inflight = {}
    /\ now = 2024
    /\ users = SeedUsers
    /\ categories = SeedCategories
    /\ genres = SeedGenres
    /\ titles = SeedTitles
    /\ reviews = {}
    /\ comments = {}
    /\ outbox = <<>>
    /\ nextId = [user |-> 3, title |-> 3, review |-> 1, comment |-> 1]
    /\ resp = NoResp

\* A request refused before its body is parsed is sent with an empty body.
ReviewCreate ==
    \E caller \in Callers, title_id \in PathTitleIds :
        IF ~ContentManagePermission_has_permission("POST", caller)
        THEN ReviewViewSet_create(caller, title_id, Missing, Missing)
        ELSE \E text \in TextInputs, score \in ScoreInputs :
                 ReviewViewSet_create(caller, title_id, text, score)

ReviewPartialUpdate ==
    \E caller \in Callers, title_id \in PathTitleIds, pk \in PathReviewIds :
        IF ReviewViewSet_get_object("PATCH", caller, title_id, pk).status # 200
        THEN ReviewViewSet_partial_update(caller, title_id, pk, Missing, Missing)
        ELSE \E text \in TextInputs, score \in ScoreInputs :
                 ReviewViewSet_partial_update(caller, title_id, pk, text, score)

ReviewDestroy ==
    \E caller \in Callers, title_id \in PathTitleIds, pk \in PathReviewIds :
        ReviewViewSet_destroy(caller, title_id, pk)

Next == ReviewCreate \/ ReviewPartialUpdate \/ ReviewDestroy

Spec == Init /\ [][Next]_vars

-----------------------------------------------------------------------------
(* Properties of the feedback specification.                               *)

\* The decimal texts of the integers 1 to 10.
ScoresOneToTen == {"1", "2", "3", "4", "5", "6", "7", "8", "9", "10"}

\* Bodies the properties try in every reachable state, beyond those the
\* requests of the specification carry.
TextProbes == {"good", "", Missing}
ScoreProbes == {"0", "1", "5", "10", "11", "-1", "10.0", "ten", Missing}

\* C1: in every state reached by review create, update and delete requests,
\* no two stored reviews have the same (author, title) pair.
C1_OneReviewPerAuthorAndTitle ==
    \A r1, r2 \in reviews :
        r1 # r2 => ~(r1.author = r2.author /\ r1.title = r2.title)

\* Two reviews are stored, by one author on two titles, and the last request
\* was a duplicate create that was refused.
C1_Witness ==
    /\ \E r1, r2 \in reviews : r1.author = r2.author /\ r1.title # r2.title
    /\ resp.op = "review_create"
    /\ resp.status = 400

\* C2: a POST to /titles/T/reviews by an authenticated user who already has
\* a review on T is answered 400, whatever its body, and leaves the stored
\* reviews as they are; and no create answered 400 changes a review or a
\* comment.
C2_DuplicateCreateRejected ==
    /\ [](\A caller \in Callers \ {Anonymous}, title_id \in PathTitleIds,
             text \in TextProbes, score \in ScoreProbes :
            (\E x \in reviews : x.author = caller /\ x.title = title_id) =>
                LET r == ReviewViewSet_create_response(
                             caller, title_id, text, score)
                IN /\ r.status = 400
                   /\ ReviewViewSet_create_reviews(
                          r, caller, title_id, text, score) = reviews)
    /\ [][(resp'.op = "review_create" /\ resp'.status = 400) =>
              (reviews' = reviews /\ comments' = comments)]_vars

\* A create has just been refused as a duplicate of a stored review.
C2_Witness ==
    /\ resp.op = "review_create"
    /\ resp.status = 400
    /\ resp.errors = {"non_field_errors"}
    /\ reviews # {}

\* C3: a create or update is accepted only if its score is the decimal text
\* of an integer from 1 to 10 (an update may also carry no score); a valid
\* create with score 10 is accepted; a create or update with score 0 or 11 is
\* refused, with 400 naming the score once the caller may write, and leaves
\* the reviews as they are; every stored score is in 1..10.
C3_ScoreInRange ==
    /\ \A x \in reviews : x.score \in 1..10
    /\ \A caller \in Callers, title_id \in PathTitleIds,
          text \in TextProbes, score \in ScoreProbes :
        LET r == ReviewViewSet_create_response(caller, title_id, text, score)
        IN /\ r.status = 201 => score \in ScoresOneToTen
           /\ (/\ caller # Anonymous
               /\ TitleExists(title_id)
               /\ ~\E x \in reviews : x.author = caller /\ x.title = title_id
               /\ text = "good"
               /\ score = "10") => r.status = 201
           /\ score \in {"0", "11"} =>
                  /\ r.status # 201
                  /\ caller # Anonymous =>
                         (r.status = 400 /\ "score" \in r.errors)
                  /\ ReviewViewSet_create_reviews(
                         r, caller, title_id, text, score) = reviews
    /\ \A caller \in Callers, title_id \in PathTitleIds, pk \in PathReviewIds,
          text \in TextProbes, score \in ScoreProbes :
        LET r == ReviewViewSet_partial_update_response(
                     caller, title_id, pk, text, score)
        IN /\ r.status = 200 => score \in ScoresOneToTen \cup {Missing}
           /\ score \in {"0", "11"} =>
                  /\ r.status # 200
                  /\ ReviewViewSet_partial_update_reviews(
                         r, pk, text, score) = reviews

\* A review with score 10 is stored, another has been moved to score 1 by an
\* update, and the last request was refused for its score.
C3_Witness ==
    /\ \E x \in reviews : x.score = 10
    /\ \E x \in reviews : x.score = 1
    /\ resp.status = 400
    /\ resp.errors = {"score"}

-----------------------------------------------------------------------------
(* Strings.  The model's strings are atoms; the conversions the code       *)
(* applies to them are tabulated for the strings the model uses.           *)

\* str.lower()
Lower(s) == IF s = "Me" THEN "me" ELSE s

\* CharField(trim_whitespace=True): str.strip()
Trim(s) == IF s = " me" THEN "me" ELSE IF s = " carol" THEN "carol" ELSE s

\* The pattern ^[\w.@+-]+\Z of UnicodeUsernameValidator and of
\* RegexValidator(r'^[\w.@+-]+\Z').
UsernamePatternMatches(s) == s \notin {"a b", " me", " carol", ""}

\* django.core.validators.EmailValidator
EmailValidatorAccepts(s) == s \notin {"nomail", ""}

-----------------------------------------------------------------------------
(* users/validators.py, api/validators.py                                  *)

FORBIDDEN_ME == "me"

FORBIDDEN_NICKNAMES == {FORBIDDEN_ME}

\* validate_username accepting every name.
validate_username_off(value) == TRUE

\* users.validators.validate_username: TRUE when it does not raise.
validate_username(value) == Lower(value) \notin FORBIDDEN_NICKNAMES

\* api.validators.validate_username_me: TRUE when it does not raise.
validate_username_me(value) == Lower(value) # "me"

-----------------------------------------------------------------------------
(* SignUpSerializer, signup (api/v1) and SignUpViewSet (api)               *)

UsersByEmail(email) == {u \in users : u.email = email}

UsersByUsername(username) == {u \in users : u.username = username}

\* The field pass of api/v1 SignUpSerializer over the trimmed values: every
\* validator of a field runs and their errors are collected.
v1_SignUpSerializer_field_errors(username, email) ==
    {e \in {"username.invalid"} : ~UsernamePatternMatches(username)}
    \cup {e \in {"username.forbidden"} : ~validate_username(username)}
    \cup {e \in {"email.invalid"} : ~EmailValidatorAccepts(email)}

\* The field pass of api SignUpSerializer: the RegexValidator, then
\* validate_username when the field itself was valid.
api_SignUpSerializer_field_errors(username, email) ==
    {e \in {"username.invalid"} : ~UsernamePatternMatches(username)}
    \cup {e \in {"username.forbidden"} :
            UsernamePatternMatches(username) /\ ~validate_username_me(username)}
    \cup {e \in {"email.invalid"} : ~EmailValidatorAccepts(email)}

\* api/v1 SignUpSerializer.validate: the errors it raises.  first() of a
\* filter on a unique column is the one row or None.
v1_SignUpSerializer_validate(username, email) ==
    IF UsersByEmail(email) # UsersByUsername(username)
    THEN {e \in {"email.exists"} : UsersByEmail(email) # {}}
         \cup {e \in {"username.exists"} : UsersByUsername(username) # {}}
    ELSE {}

\* validate that compares nothing.
api_SignUpSerializer_validate_off(username, email) == {}

\* api SignUpSerializer.validate: the errors it raises.
api_SignUpSerializer_validate(username, email) ==
    IF UsersByEmail(email) # {}
    THEN IF (CHOOSE u \in UsersByEmail(email) : TRUE).username # username
         THEN {"email.exists"}
         ELSE {}
    ELSE IF UsersByUsername(username) # {}
    THEN {"username.exists"}
    ELSE {}

\* The row objects.create / get_or_create inserts: role defaults to USER, and
\* CustomUser.save fills an empty confirmation_code with
\* secrets.token_urlsafe(16), here code.
NewUser(username, email, code) ==
    [id |-> nextId.user, username |-> username, email |-> email,
     role |-> USER, is_superuser |-> FALSE, confirmation_code |-> code]

\* default_token_generator.make_token(user): a hash over the user's primary
\* key and email (and the password, the last login and the time, which the
\* model holds still).
make_token(u) == <<"prt-1", "prt-2", "prt-3", "prt-4", "prt-5">>[u.id]

Mail(to, code) == [to |-> to, code |-> code]

\* What a request does: its response, the user table and the mails sent.
Outcome(r, us, mails) == [resp |-> r, users |-> us, outbox |-> mails]

Refused(r) == Outcome(r, users, <<>>)

\* User.objects.get_or_create(username=..., email=...) of api/v1 signup.  An
\* INSERT that breaks a unique column raises IntegrityError (ok is FALSE).
v1_get_or_create(username, email, code) ==
    LET found == {u \in users : u.username = username /\ u.email = email} IN
    IF found # {}
    THEN [user |-> CHOOSE u \in found : TRUE, created |-> FALSE, ok |-> TRUE]
    ELSE [user |-> NewUser(username, email, code), created |-> TRUE,
          ok |-> UsersByUsername(username) = {} /\ UsersByEmail(email) = {}]

\* The signup view of api/v1 on the raw request.data: is_valid over the
\* trimmed values, get_or_create over the raw ones, make_token, send_mail.
signup_outcome(username, email, code) ==
    LET field_errors ==
            v1_SignUpSerializer_field_errors(Trim(username), Trim(email))
        errors == v1_SignUpSerializer_validate(Trim(username), Trim(email))
        got == v1_get_or_create(username, email, code)
    IN
    IF field_errors # {}
    THEN Refused(Response(400, field_errors))
    ELSE IF errors # {}
    THEN Refused(Response(400, errors))
    ELSE IF ~got.ok
    THEN Refused(ServerError)
    ELSE Outcome(
             Success(200, [username |-> Trim(username), email |-> Trim(email)]),
             IF got.created THEN users \cup {got.user} ELSE users,
             <<Mail(got.user.email, make_token(got.user))>>)

\* get_or_create that always inserts.
api_get_or_create_insert(username, email, code) ==
    [user |-> NewUser(username, email, code), created |-> TRUE, ok |-> TRUE]

\* User.objects.get_or_create(email=email, defaults={...}) of api
\* SignUpSerializer.create.
api_get_or_create(username, email, code) ==
    IF UsersByEmail(email) # {}
    THEN [user |-> CHOOSE u \in UsersByEmail(email) : TRUE, created |-> FALSE,
          ok |-> TRUE]
    ELSE [user |-> NewUser(username, email, code), created |-> TRUE,
          ok |-> UsersByUsername(username) = {}]

\* SignUpViewSet.create of api: is_valid, then SignUpSerializer.create
\* (get_or_create by email, a fresh confirmation code for a reused account,
\* send_mail).
SignUpViewSet_create_outcome(username, email, code) ==
    LET field_errors ==
            api_SignUpSerializer_field_errors(Trim(username), Trim(email))
        errors == api_SignUpSerializer_validate(Trim(username), Trim(email))
        got == api_get_or_create(Trim(username), Trim(email), code)
        user == [got.user EXCEPT !.confirmation_code = code]
    IN
    IF field_errors # {}
    THEN Refused(Response(400, field_errors))
    ELSE IF errors # {}
    THEN Refused(Response(400, errors))
    ELSE IF ~got.ok
    THEN Refused(ServerError)
    ELSE Outcome(
             Success(200, [username |-> user.username, email |-> user.email]),
             IF got.created
             THEN users \cup {user}
             ELSE {IF u.id = user.id THEN user ELSE u : u \in users},
             <<Mail(user.email, user.confirmation_code)>>)

\* POST /auth/signup/ as the routed draft serves it.
SignupOutcome(username, email, code) ==
    IF draft = "v1"
    THEN signup_outcome(username, email, code)
    ELSE SignUpViewSet_create_outcome(username, email, code)

\* The signup view of api/v1.
signup(username, email, code) ==
    LET o == signup_outcome(username, email, code) IN
    /\ draft = "v1"
    /\ Cardinality(o.users) > Cardinality(users) => nextId.user <= MaxUserId
    /\ users' = o.users
    /\ outbox' = o.outbox
    /\ nextId' = IF Cardinality(o.users) > Cardinality(users)
                 THEN [nextId EXCEPT !.user = @ + 1]
                 ELSE nextId
    /\ resp' = [op |-> "signup", status |-> o.resp.status,
                errors |-> o.resp.errors, body |-> o.resp.body]
    /\ UNCHANGED <<inflight, draft, now, categories, genres, titles, reviews, comments>>

\* SignUpViewSet.create of api.
SignUpViewSet_create(username, email, code) ==
    LET o == SignUpViewSet_create_outcome(username, email, code) IN
    /\ draft = "api"
    /\ Cardinality(o.users) > Cardinality(users) => nextId.user <= MaxUserId
    /\ users' = o.users
    /\ outbox' = o.outbox
    /\ nextId' = IF Cardinality(o.users) > Cardinality(users)
                 THEN [nextId EXCEPT !.user = @ + 1]
                 ELSE nextId
    /\ resp' = [op |-> "signup", status |-> o.resp.status,
                errors |-> o.resp.errors, body |-> o.resp.body]
    /\ UNCHANGED <<inflight, draft, now, categories, genres, titles, reviews, comments>>

-----------------------------------------------------------------------------
(* TokenObtainSerializer, token (api/v1) and TokenViewSet (api)            *)

\* AccessToken.for_user(user): a signed token that names the user.
AccessToken_for_user(u) == [token |-> u.id]

\* The field pass of api/v1 TokenObtainSerializer: CharFields (not blank),
\* the username with UnicodeUsernameValidator and validate_username.
v1_TokenObtainSerializer_field_errors(username, confirmation_code) ==
    {e \in {"username.invalid"} : ~UsernamePatternMatches(username)}
    \cup {e \in {"username.forbidden"} : ~validate_username(username)}
    \cup {e \in {"confirmation_code"} : confirmation_code = ""}

\* The token view of api/v1: is_valid, then get_object_or_404 called without
\* the model (klass), which raises TypeError before any lookup.
token_response(username, confirmation_code) ==
    LET field_errors == v1_TokenObtainSerializer_field_errors(
                            Trim(username), Trim(confirmation_code))
    IN
    IF field_errors # {}
    THEN Response(400, field_errors)
    ELSE ServerError

\* The field pass of api TokenObtainSerializer: two CharFields, not blank.
api_TokenObtainSerializer_field_errors(username, confirmation_code) ==
    {e \in {"username"} : username = ""}
    \cup {e \in {"confirmation_code"} : confirmation_code = ""}

\* api TokenObtainSerializer.validate: NotFound, ValidationError, or the
\* attrs with the token.
api_TokenObtainSerializer_validate(username, confirmation_code) ==
    IF UsersByUsername(username) = {}
    THEN NotFound
    ELSE LET user == CHOOSE u \in UsersByUsername(username) : TRUE IN
         IF user.confirmation_code # confirmation_code
         THEN Response(400, {"confirmation_code.invalid"})
         ELSE Success(200, AccessToken_for_user(user))

\* TokenViewSet.create of api.
TokenViewSet_create_response(username, confirmation_code) ==
    LET field_errors == api_TokenObtainSerializer_field_errors(
                            Trim(username), Trim(confirmation_code))
    IN
    IF field_errors # {}
    THEN Response(400, field_errors)
    ELSE api_TokenObtainSerializer_validate(
             Trim(username), Trim(confirmation_code))

\* POST /auth/token/ as the routed draft serves it.
TokenResponse(username, confirmation_code) ==
    IF draft = "v1"
    THEN token_response(username, confirmation_code)
    ELSE TokenViewSet_create_response(username, confirmation_code)

\* The token view of api/v1.
token(username, confirmation_code) ==
    LET r == token_response(username, confirmation_code) IN
    /\ draft = "v1"
    /\ resp' = [op |-> "token", status |-> r.status, errors |-> r.errors,
                body |-> r.body]
    /\ outbox' = <<>>
    /\ UNCHANGED <<inflight, draft, now, users, categories, genres, titles, reviews,
                   comments, nextId>>

\* TokenViewSet.create of api.
TokenViewSet_create(username, confirmation_code) ==
    LET r == TokenViewSet_create_response(username, confirmation_code) IN
    /\ draft = "api"
    /\ resp' = [op |-> "token", status |-> r.status, errors |-> r.errors,
                body |-> r.body]
    /\ outbox' = <<>>
    /\ UNCHANGED <<inflight, draft, now, users, categories, genres, titles, reviews,
                   comments, nextId>>

-----------------------------------------------------------------------------
(* The account specification: signup and token exchange, from a database   *)
(* that holds one administrator.                                           *)

AuthSeedUsers == {Account(1, "carol", "carol@x.org", ADMIN, TRUE, "k0")}

\* What the requests of the account specification carry.
UsernameInputs == {"alice", "bob", "carol", " carol", "me", "Me", " me", "a b"}
EmailInputs == {"alice@x.org", "bob@x.org", "carol@x.org", "nomail"}
\* The values secrets.token_urlsafe(16) takes.
Codes == {"k1", "k2"}
CodeInputs == Codes \cup {"k0", "prt-1", "zz", ""}

InitAuth ==
    /\ draft \in Drafts
    /\ inflight = {}
    /\ now = 2024
    /\ users = AuthSeedUsers
    /\ categories = {}
    /\ genres = {}
    /\ titles = {}
    /\ reviews = {}
    /\ comments = {}
    /\ outbox = <<>>
    /\ nextId = [user |-> 2, title |-> 1, review |-> 1, comment |-> 1]
    /\ resp = NoResp

SignupV1 ==
    \E username \in UsernameInputs, email \in EmailInputs, code \in Codes :
        signup(username, email, code)

SignupApi ==
    \E username \in UsernameInputs, email \in EmailInputs, code \in Codes :
        SignUpViewSet_create(username, email, code)

TokenV1 ==
    \E username \in UsernameInputs, code \in CodeInputs : token(username, code)

TokenApi ==
    \E username \in UsernameInputs, code \in CodeInputs :
        TokenViewSet_create(username, code)

NextAuth == SignupV1 \/ SignupApi \/ TokenV1 \/ TokenApi

SpecAuth == InitAuth /\ [][NextAuth]_vars

-----------------------------------------------------------------------------
(* Properties of the account specification.                                *)

\* The spellings the serializers read as the username "me".
MeSpellings == {username \in UsernameInputs : Lower(Trim(username)) = FORBIDDEN_ME}

\* An account without its confirmation code.
Profiles(us) ==
    {[id |-> u.id, username |-> u.username, email |-> u.email,
      role |-> u.role, is_superuser |-> u.is_superuser] : u \in us}

\* The confirmation code a token exchange compares with.
CurrentCode(u) == IF draft = "v1" THEN make_token(u) ELSE u.confirmation_code

\* C4: a signup whose username is "me" is rejected (400) for every email,
\* new or taken, and it creates no user, modifies no user and sends no mail:
\* in every reachable state and for every email and code such a request is
\* answered 400 with the user table as it was and no mail, and every signup
\* step refused for the forbidden name leaves the users and sends nothing.
C4_SignupMeRejected ==
    /\ [](\A username \in MeSpellings, email \in EmailInputs, code \in Codes :
            LET o == SignupOutcome(username, email, code) IN
            /\ o.resp.status = 400
            /\ o.users = users
            /\ o.outbox = <<>>)
    /\ [][(resp'.op = "signup" /\ "username.forbidden" \in resp'.errors)
            => (users' = users /\ outbox' = <<>> /\ nextId' = nextId)]_vars

\* A signup as "me" was refused while a second account existed, so both new
\* and taken emails were there to be sent.
C4_Witness ==
    /\ resp.op = "signup"
    /\ resp.status = 400
    /\ "username.forbidden" \in resp.errors
    /\ Cardinality(users) >= 2

C7_TokenIffCodeMatches ==
    \A u \in users, code \in CodeInputs \ {""} :
        LET r == TokenResponse(u.username, code) IN
        /\ r.status = 200 <=> code = CurrentCode(u)
        /\ r.status = 200 => r.body = AccessToken_for_user(u)
        /\ code # CurrentCode(u) => r.status = 400

\* C8: a token exchange for a username that no account has is answered 404,
\* whatever the code, and issues no token.
C8_UnknownUsernameNotFound ==
    \A username \in {"alice", "bob"}, code \in CodeInputs \ {""} :
        UsersByUsername(username) = {} =>
            TokenResponse(username, code).status = 404

-----------------------------------------------------------------------------
(* The catalog: serializers of Category, Genre and Title                   *)

\* A nullable value of a response: None, or the value.
None == <<>>

Some(v) == <<v>>

CategoryBySlug(slug) == CHOOSE c \in categories : c.slug = slug

\* CategorySerializer (exclude = ('id',)).to_representation
CategorySerializer_data(c) == [name |-> c.name, slug |-> c.slug]

\* GenreSerializer (exclude = ('id',)).to_representation
GenreSerializer_data(g) == [name |-> g.name, slug |-> g.slug]

\* Sum of the scores of a set of reviews.
RECURSIVE SumScores(_)
SumScores(rs) ==
    IF rs = {}
    THEN 0
    ELSE LET r == CHOOSE x \in rs : TRUE IN r.score + SumScores(rs \ {r})

\* An average over the reviews of every title.
rating_of_all(title_id) ==
    IF reviews = {}
    THEN None
    ELSE Some(SumScores(reviews) \div Cardinality(reviews))

\* annotate(rating=Avg('reviews__score')) as IntegerField.to_representation
\* renders it: None without reviews, else int() of the average.
rating(title_id) ==
    LET rs == ReviewsOfTitle(title_id) IN
    IF rs = {} THEN None ELSE Some(SumScores(rs) \div Cardinality(rs))

\* TitleReadSerializer.to_representation of a row that carries no rating
\* attribute (a row just created): the rating field is skipped.
TitleReadSerializer_data_unannotated(t) ==
    [id |-> t.id, name |-> t.name, year |-> t.year,
     description |-> t.description,
     genre |-> {GenreSerializer_data(g) : g \in {x \in genres : x.slug \in t.genre}},
     category |-> IF t.category = Null
                  THEN None
                  ELSE Some(CategorySerializer_data(CategoryBySlug(t.category)))]

\* TitleReadSerializer.to_representation of a row of the annotated queryset.
TitleReadSerializer_data(t) ==
    [id |-> t.id, name |-> t.name, year |-> t.year,
     description |-> t.description,
     genre |-> {GenreSerializer_data(g) : g \in {x \in genres : x.slug \in t.genre}},
     category |-> IF t.category = Null
                  THEN None
                  ELSE Some(CategorySerializer_data(CategoryBySlug(t.category))),
     rating |-> rating(t.id)]

\* The decimal strings a request carries as a year.
IntegerStrings == {"1972", "2024", "2025"}

\* IntegerField.to_internal_value over IntegerStrings.
year_to_internal_value(s) ==
    IF s = "1972" THEN 1972 ELSE IF s = "2024" THEN 2024 ELSE 2025

\* A validator of the year that never raises.
validate_year_any(value) == TRUE

\* reviews.validators.validate_year: TRUE when it does not raise.
validate_year(value) == ~(value > now)

Has(body, field) == field \in DOMAIN body

\* TitleWriteSerializer with allow_empty and allow_null left at True.
TitleWriteSerializer_errors_allow(body, partial) ==
    {f \in {"name"} : ~Has(body, "name") /\ ~partial}
    \cup {f \in {"year"} :
            IF Has(body, "year")
            THEN \/ body.year \notin IntegerStrings
                 \/ ~validate_year(year_to_internal_value(body.year))
            ELSE ~partial}
    \cup {f \in {"genre"} :
            IF Has(body, "genre")
            THEN \E slug \in body.genre : \A g \in genres : g.slug # slug
            ELSE ~partial}
    \cup {f \in {"category"} :
            IF Has(body, "category")
            THEN body.category # Null /\ \A c \in categories : c.slug # body.category
            ELSE ~partial}

\* The fields TitleWriteSerializer refuses.  A body is a record of the fields
\* the request carries.
TitleWriteSerializer_errors(body, partial) ==
    {f \in {"name"} : ~Has(body, "name") /\ ~partial}
    \cup {f \in {"year"} :
            IF Has(body, "year")
            THEN \/ body.year \notin IntegerStrings
                 \/ ~validate_year(year_to_internal_value(body.year))
            ELSE ~partial}
    \cup {f \in {"genre"} :
            IF Has(body, "genre")
            THEN \/ body.genre = {}
                 \/ \E slug \in body.genre : \A g \in genres : g.slug # slug
            ELSE ~partial}
    \cup {f \in {"category"} :
            IF Has(body, "category")
            THEN \A c \in categories : c.slug # body.category
            ELSE ~partial}

\* TitleWriteSerializer.create
NewTitle(body) ==
    [id |-> nextId.title, name |-> body.name,
     year |-> year_to_internal_value(body.year), description |-> "",
     genre |-> body.genre, category |-> body.category]

\* TitleWriteSerializer.update with partial=True
UpdatedTitle(t, body) ==
    [id |-> t.id,
     name |-> IF Has(body, "name") THEN body.name ELSE t.name,
     year |-> IF Has(body, "year")
              THEN year_to_internal_value(body.year) ELSE t.year,
     description |-> t.description,
     genre |-> IF Has(body, "genre") THEN body.genre ELSE t.genre,
     category |-> IF Has(body, "category") THEN body.category ELSE t.category]

\* The fields GenreSerializer / CategorySerializer refuse: name and slug are
\* required, the slug is unique in its table.
SlugSerializer_errors(body, rows) ==
    {f \in {"name"} : ~Has(body, "name")}
    \cup {f \in {"slug"} :
            IF Has(body, "slug")
            THEN \E x \in rows : x.slug = body.slug
            ELSE TRUE}

-----------------------------------------------------------------------------
(* TitleViewSet, GenreViewSet, CategoryViewSet                             *)

\* What a catalog request does: its response and the three tables.
Written(r, ts, gs, cs) ==
    [resp |-> r, titles |-> ts, genres |-> gs, categories |-> cs]

Unwritten(r) == Written(r, titles, genres, categories)

\* A route that answers every permitted method with a representation.
http_method_allowed(method, caller) ==
    IF ~IsAdminOrReadOnly_has_permission(method, caller)
    THEN Unwritten(PermissionDenied(caller))
    ELSE Unwritten(Success(200, {}))

\* A method the route has no handler for: APIView.dispatch runs initial()
\* (the permission check) before it looks the handler up.
http_method_not_allowed(method, caller) ==
    IF ~IsAdminOrReadOnly_has_permission(method, caller)
    THEN Unwritten(PermissionDenied(caller))
    ELSE Unwritten(Response(405, {"detail"}))

TitleViewSet_list(caller) ==
    IF ~IsAdminOrReadOnly_has_permission("GET", caller)
    THEN Unwritten(PermissionDenied(caller))
    ELSE Unwritten(Success(200, {TitleReadSerializer_data(t) : t \in titles}))

TitleViewSet_retrieve(caller, pk) ==
    IF ~IsAdminOrReadOnly_has_permission("GET", caller)
    THEN Unwritten(PermissionDenied(caller))
    ELSE IF ~TitleExists(pk)
    THEN Unwritten(NotFound)
    ELSE Unwritten(Success(200, TitleReadSerializer_data(
                       CHOOSE t \in titles : t.id = pk)))

TitleViewSet_create(caller, body) ==
    IF ~IsAdminOrReadOnly_has_permission("POST", caller)
    THEN Unwritten(PermissionDenied(caller))
    ELSE IF TitleWriteSerializer_errors(body, FALSE) # {}
    THEN Unwritten(Response(400, TitleWriteSerializer_errors(body, FALSE)))
    ELSE Written(Success(201, TitleReadSerializer_data_unannotated(NewTitle(body))),
                 titles \cup {NewTitle(body)}, genres, categories)

TitleViewSet_partial_update(caller, pk, body) ==
    IF ~IsAdminOrReadOnly_has_permission("PATCH", caller)
    THEN Unwritten(PermissionDenied(caller))
    ELSE IF ~TitleExists(pk)
    THEN Unwritten(NotFound)
    ELSE IF TitleWriteSerializer_errors(body, TRUE) # {}
    THEN Unwritten(Response(400, TitleWriteSerializer_errors(body, TRUE)))
    ELSE LET t == CHOOSE x \in titles : x.id = pk IN
         Written(Success(200, TitleReadSerializer_data(UpdatedTitle(t, body))),
                 (titles \ {t}) \cup {UpdatedTitle(t, body)}, genres, categories)

TitleViewSet_destroy(caller, pk) ==
    IF ~IsAdminOrReadOnly_has_permission("DELETE", caller)
    THEN Unwritten(PermissionDenied(caller))
    ELSE IF ~TitleExists(pk)
    THEN Unwritten(NotFound)
    ELSE Written(Response(204, {}), {t \in titles : t.id # pk}, genres,
                 categories)

GenreViewSet_list(caller) ==
    IF ~IsAdminOrReadOnly_has_permission("GET", caller)
    THEN Unwritten(PermissionDenied(caller))
    ELSE Unwritten(Success(200, {GenreSerializer_data(g) : g \in genres}))

GenreViewSet_create(caller, body) ==
    IF ~IsAdminOrReadOnly_has_permission("POST", caller)
    THEN Unwritten(PermissionDenied(caller))
    ELSE IF SlugSerializer_errors(body, genres) # {}
    THEN Unwritten(Response(400, SlugSerializer_errors(body, genres)))
    ELSE Written(Success(201, [name |-> body.name, slug |-> body.slug]),
                 titles, genres \cup {[name |-> body.name, slug |-> body.slug]},
                 categories)

\* DELETE /genres/{slug}/ that takes the titles of the genre with it.
GenreViewSet_destroy_cascade(caller, slug) ==
    IF ~IsAdminOrReadOnly_has_permission("DELETE", caller)
    THEN Unwritten(PermissionDenied(caller))
    ELSE IF \A g \in genres : g.slug # slug
    THEN Unwritten(NotFound)
    ELSE Written(Response(204, {}), {t \in titles : slug \notin t.genre},
                 {g \in genres : g.slug # slug}, categories)

\* DELETE /genres/{slug}/; the Title_genre rows of the genre go with it
\* (on_delete=CASCADE).
GenreViewSet_destroy(caller, slug) ==
    IF ~IsAdminOrReadOnly_has_permission("DELETE", caller)
    THEN Unwritten(PermissionDenied(caller))
    ELSE IF \A g \in genres : g.slug # slug
    THEN Unwritten(NotFound)
    ELSE Written(Response(204, {}),
                 {[t EXCEPT !.genre = @ \ {slug}] : t \in titles},
                 {g \in genres : g.slug # slug}, categories)

CategoryViewSet_list(caller) ==
    IF ~IsAdminOrReadOnly_has_permission("GET", caller)
    THEN Unwritten(PermissionDenied(caller))
    ELSE Unwritten(Success(200, {CategorySerializer_data(c) : c \in categories}))

CategoryViewSet_create(caller, body) ==
    IF ~IsAdminOrReadOnly_has_permission("POST", caller)
    THEN Unwritten(PermissionDenied(caller))
    ELSE IF SlugSerializer_errors(body, categories) # {}
    THEN Unwritten(Response(400, SlugSerializer_errors(body, categories)))
    ELSE Written(Success(201, [name |-> body.name, slug |-> body.slug]),
                 titles, genres,
                 categories \cup {[name |-> body.name, slug |-> body.slug]})

\* DELETE /categories/{slug}/ as on_delete=CASCADE would do it.
CategoryViewSet_destroy_cascade(caller, slug) ==
    IF ~IsAdminOrReadOnly_has_permission("DELETE", caller)
    THEN Unwritten(PermissionDenied(caller))
    ELSE IF \A c \in categories : c.slug # slug
    THEN Unwritten(NotFound)
    ELSE Written(Response(204, {}), {t \in titles : t.category # slug},
                 genres, {c \in categories : c.slug # slug})

\* DELETE /categories/{slug}/; Title.category of its titles becomes NULL
\* (on_delete=SET_NULL).
CategoryViewSet_destroy(caller, slug) ==
    IF ~IsAdminOrReadOnly_has_permission("DELETE", caller)
    THEN Unwritten(PermissionDenied(caller))
    ELSE IF \A c \in categories : c.slug # slug
    THEN Unwritten(NotFound)
    ELSE Written(Response(204, {}),
                 {IF t.category = slug THEN [t EXCEPT !.category = Null] ELSE t :
                      t \in titles},
                 genres, {c \in categories : c.slug # slug})

\* The step of a catalog request that does o: the tables it writes, the
\* reviews and comments deleted with their titles (on_delete=CASCADE), and
\* the response.
Serve(op, caller, o) ==
    /\ o.resp.status = 201 /\ op = "title_create" => nextId.title <= MaxTitleId
    /\ titles' = o.titles
    /\ genres' = o.genres
    /\ categories' = o.categories
    /\ reviews' = {r \in reviews : \E t \in o.titles : t.id = r.title}
    /\ comments' = {c \in comments : \E r \in reviews' : c.review = r.id}
    /\ nextId' = IF o.resp.status = 201 /\ op = "title_create"
                 THEN [nextId EXCEPT !.title = @ + 1]
                 ELSE nextId
    /\ resp' = [op |-> op, status |-> o.resp.status, errors |-> o.resp.errors,
                body |-> o.resp.body, caller |-> caller]
    /\ outbox' = <<>>
    /\ UNCHANGED <<inflight, draft, now, users>>

-----------------------------------------------------------------------------
(* The catalog specification: the title, genre and category endpoints,     *)
(* called by accounts of every role.                                       *)

\* dave is a superuser whose role is user.
CatalogUsers ==
    {Account(1, "alice", "alice@x.org", USER, FALSE, "k1"),
     Account(2, "bob", "bob@x.org", MODERATOR, FALSE, "k2"),
     Account(3, "carol", "carol@x.org", ADMIN, FALSE, "k3"),
     Account(4, "dave", "dave@x.org", USER, TRUE, "k4")}

CatalogSeedTitles ==
    {[id |-> 1, name |-> "Solaris", year |-> 1972, description |-> "",
      genre |-> {"drama"}, category |-> "films"]}

\* Two reviews of the seeded title; their average is 7.5.
CatalogSeedReviews ==
    {[id |-> 1, author |-> 1, title |-> 1, text |-> "good", score |-> 7],
     [id |-> 2, author |-> 2, title |-> 1, text |-> "good", score |-> 8]}

CatalogSeedComments == {[id |-> 1, author |-> 2, review |-> 1, text |-> "yes"]}

\* What the requests of the catalog specification carry.
TitleBodies ==
    {[name |-> "Stalker", year |-> "1972", genre |-> {"drama"},
      category |-> "films"],
     [name |-> "Stalker", year |-> "2025", genre |-> {"drama"},
      category |-> "films"],
     [name |-> "Stalker", year |-> "1972", genre |-> {},
      category |-> "films"],
     [year |-> "1972", genre |-> {"drama"}, category |-> "films"]}
TitlePatches ==
    {[year |-> "2025"], [genre |-> {"drama"}], [category |-> "films"]}
GenreBodies == {[name |-> "Drama", slug |-> "drama"], [name |-> "Drama"]}
CategoryBodies == {[name |-> "Films", slug |-> "films"], [name |-> "Films"]}
PathTitlePks == 1..(MaxTitleId + 1)
PathGenreSlugs == {"drama", "opera"}
PathCategorySlugs == {"films", "books"}
UnroutedMethods == {"PUT", "PATCH"}
\* The body of a request that is refused before its body is read.
Unread == [f \in {} |-> ""]

InitCatalog ==
    /\ draft \in Drafts
    /\ inflight = {}
    /\ now = 2024
    /\ users = CatalogUsers
    /\ categories = SeedCategories
    /\ genres = SeedGenres
    /\ titles = CatalogSeedTitles
    /\ reviews = CatalogSeedReviews
    /\ comments = CatalogSeedComments
    /\ outbox = <<>>
    /\ nextId = [user |-> 5, title |-> 2, review |-> 3, comment |-> 2]
    /\ resp = NoResp

TitleList == \E caller \in Callers : Serve("title_list", caller, TitleViewSet_list(caller))

TitleRetrieve ==
    \E caller \in Callers, pk \in PathTitlePks :
        Serve("title_retrieve", caller, TitleViewSet_retrieve(caller, pk))

TitleCreate ==
    \E caller \in Callers :
        IF ~IsAdminOrReadOnly_has_permission("POST", caller)
        THEN Serve("title_create", caller, TitleViewSet_create(caller, Unread))
        ELSE \E body \in TitleBodies :
                 Serve("title_create", caller, TitleViewSet_create(caller, body))

TitlePartialUpdate ==
    \E caller \in Callers, pk \in PathTitlePks :
        IF ~IsAdminOrReadOnly_has_permission("PATCH", caller)
        THEN Serve("title_partial_update", caller,
                   TitleViewSet_partial_update(caller, pk, Unread))
        ELSE \E body \in TitlePatches :
                 Serve("title_partial_update", caller,
                       TitleViewSet_partial_update(caller, pk, body))

TitleDestroy ==
    \E caller \in Callers, pk \in PathTitlePks :
        Serve("title_destroy", caller, TitleViewSet_destroy(caller, pk))

GenreList == \E caller \in Callers : Serve("genre_list", caller, GenreViewSet_list(caller))

GenreCreate ==
    \E caller \in Callers :
        IF ~IsAdminOrReadOnly_has_permission("POST", caller)
        THEN Serve("genre_create", caller, GenreViewSet_create(caller, Unread))
        ELSE \E body \in GenreBodies :
                 Serve("genre_create", caller, GenreViewSet_create(caller, body))

GenreDestroy ==
    \E caller \in Callers, slug \in PathGenreSlugs :
        Serve("genre_destroy", caller, GenreViewSet_destroy(caller, slug))

CategoryList ==
    \E caller \in Callers :
        Serve("category_list", caller, CategoryViewSet_list(caller))

CategoryCreate ==
    \E caller \in Callers :
        IF ~IsAdminOrReadOnly_has_permission("POST", caller)
        THEN Serve("category_create", caller,
                   CategoryViewSet_create(caller, Unread))
        ELSE \E body \in CategoryBodies :
                 Serve("category_create", caller,
                       CategoryViewSet_create(caller, body))

CategoryDestroy ==
    \E caller \in Callers, slug \in PathCategorySlugs :
        Serve("category_destroy", caller, CategoryViewSet_destroy(caller, slug))

\* PUT on a title, PATCH on a genre or a category.
MethodNotAllowed ==
    \E caller \in Callers, method \in UnroutedMethods :
        Serve("method_not_allowed", caller, http_method_not_allowed(method, caller))

NextCatalog ==
    \/ TitleList \/ TitleRetrieve \/ TitleCreate \/ TitlePartialUpdate
    \/ TitleDestroy
    \/ GenreList \/ GenreCreate \/ GenreDestroy
    \/ CategoryList \/ CategoryCreate \/ CategoryDestroy
    \/ MethodNotAllowed

SpecCatalog == InitCatalog /\ [][NextCatalog]_vars

-----------------------------------------------------------------------------
(* Properties of the catalog specification.                                *)

catalog == <<titles, genres, categories>>

\* The authenticated callers that are neither role admin nor superuser.
NonAdmins == {c \in Callers : is_authenticated(c) /\ ~is_admin(UserById(c))}

\* Every POST, PATCH and DELETE on the three resources, sent by caller.
WritesBy(caller) ==
    {TitleViewSet_create(caller, body) : body \in TitleBodies \cup {Unread}}
    \cup {TitleViewSet_partial_update(caller, pk, body) :
              pk \in PathTitlePks, body \in TitlePatches \cup {Unread}}
    \cup {TitleViewSet_destroy(caller, pk) : pk \in PathTitlePks}
    \cup {GenreViewSet_create(caller, body) : body \in GenreBodies \cup {Unread}}
    \cup {GenreViewSet_destroy(caller, slug) : slug \in PathGenreSlugs}
    \cup {CategoryViewSet_create(caller, body) :
              body \in CategoryBodies \cup {Unread}}
    \cup {CategoryViewSet_destroy(caller, slug) : slug \in PathCategorySlugs}
    \cup {http_method_not_allowed(method, caller) :
              method \in {"POST", "PATCH", "DELETE"}}

WriteOps ==
    {"title_create", "title_partial_update", "title_destroy", "genre_create",
     "genre_destroy", "category_create", "category_destroy"}

\* C9: a POST, PATCH or DELETE on /titles, /genres or /categories by an
\* authenticated caller who is neither admin nor superuser is answered 403
\* and leaves titles, genres and categories as they were; and the catalog
\* changes only in a step that serves an admin or a superuser.
C9_OnlyAdminsWriteCatalog ==
    /\ [](\A caller \in NonAdmins : \A o \in WritesBy(caller) :
            /\ o.resp.status = 403
            /\ <<o.titles, o.genres, o.categories>> = catalog)
    /\ [][catalog' # catalog =>
            /\ resp'.caller # Anonymous
            /\ is_admin(UserById(resp'.caller))]_vars
    /\ [][(resp'.op \in WriteOps /\ resp'.caller \in NonAdmins) =>
            (resp'.status = 403 /\ catalog' = catalog)]_vars

\* The moderator was refused a write on a catalog that an admin had changed
\* before.
C9_Witness ==
    /\ resp.op \in WriteOps
    /\ resp.status = 403
    /\ resp.caller = 2
    /\ catalog # <<CatalogSeedTitles, SeedGenres, SeedCategories>>

\* C10: GET on /titles, /genres and /categories is permitted for anonymous
\* callers, and the permission decision and the list returned are the same
\* for every caller (anonymous, user, moderator, admin) in one stored
\* state; a list that was served is the list an anonymous caller gets.
C10_ReadsSameForEveryCaller ==
    /\ IsAdminOrReadOnly_has_permission("GET", Anonymous)
    /\ TitleViewSet_list(Anonymous).resp.status = 200
    /\ GenreViewSet_list(Anonymous).resp.status = 200
    /\ CategoryViewSet_list(Anonymous).resp.status = 200
    /\ \A c1, c2 \in Callers :
        /\ IsAdminOrReadOnly_has_permission("GET", c1)
               = IsAdminOrReadOnly_has_permission("GET", c2)
        /\ TitleViewSet_list(c1).resp = TitleViewSet_list(c2).resp
        /\ GenreViewSet_list(c1).resp = GenreViewSet_list(c2).resp
        /\ CategoryViewSet_list(c1).resp = CategoryViewSet_list(c2).resp
    /\ resp.op = "title_list" =>
           /\ resp.status = 200
           /\ resp.body = TitleViewSet_list(Anonymous).resp.body
    /\ resp.op = "genre_list" =>
           /\ resp.status = 200
           /\ resp.body = GenreViewSet_list(Anonymous).resp.body
    /\ resp.op = "category_list" =>
           /\ resp.status = 200
           /\ resp.body = CategoryViewSet_list(Anonymous).resp.body

\* An anonymous caller was served the list of titles, with a title rated by
\* its reviews in it.
C10_Witness ==
    /\ resp.op = "title_list"
    /\ resp.caller = Anonymous
    /\ resp.status = 200
    /\ \E t \in resp.body : t.rating = Some(7)

-----------------------------------------------------------------------------
(* The title specification: an administrator writes titles and deletes     *)
(* categories.                                                             *)

TitleSpecUsers ==
    {Account(1, "alice", "alice@x.org", USER, FALSE, "k1"),
     Account(3, "carol", "carol@x.org", ADMIN, FALSE, "k3")}

TitleSpecCategories ==
    {[name |-> "Films", slug |-> "films"], [name |-> "Books", slug |-> "books"]}

TitleSpecReviews ==
    {[id |-> 1, author |-> 1, title |-> 1, text |-> "good", score |-> 7]}

\* What the requests of the title specification carry.  The current year is
\* 2024; a category of Null is JSON null.
TitleWriteBodies ==
    {[name |-> "Stalker", year |-> "2024", genre |-> {"drama"},
      category |-> "books"],
     [name |-> "Stalker", year |-> "2025", genre |-> {"drama"},
      category |-> "books"],
     [name |-> "Stalker", year |-> "2024", genre |-> {"drama"}],
     [name |-> "Stalker", year |-> "2024", genre |-> {"drama"},
      category |-> Null],
     [name |-> "Stalker", year |-> "2024", category |-> "books"],
     [name |-> "Stalker", year |-> "2024", genre |-> {},
      category |-> "books"]}
TitleWritePatches ==
    {[year |-> "2024"], [year |-> "2025"], [category |-> Null],
     [genre |-> {}]}

InitTitles ==
    /\ draft \in Drafts
    /\ inflight = {}
    /\ now = 2024
    /\ users = TitleSpecUsers
    /\ categories = TitleSpecCategories
    /\ genres = SeedGenres
    /\ titles = CatalogSeedTitles
    /\ reviews = TitleSpecReviews
    /\ comments = {}
    /\ outbox = <<>>
    /\ nextId = [user |-> 4, title |-> 2, review |-> 2, comment |-> 1]
    /\ resp = NoResp

TitlePost ==
    \E caller \in Callers :
        IF ~IsAdminOrReadOnly_has_permission("POST", caller)
        THEN Serve("title_create", caller, TitleViewSet_create(caller, Unread))
        ELSE \E body \in TitleWriteBodies :
                 Serve("title_create", caller, TitleViewSet_create(caller, body))

TitlePatch ==
    \E caller \in Callers, pk \in PathTitlePks :
        IF ~IsAdminOrReadOnly_has_permission("PATCH", caller)
        THEN Serve("title_partial_update", caller,
                   TitleViewSet_partial_update(caller, pk, Unread))
        ELSE \E body \in TitleWritePatches :
                 Serve("title_partial_update", caller,
                       TitleViewSet_partial_update(caller, pk, body))

NextTitles == TitlePost \/ TitlePatch \/ CategoryDestroy \/ GenreDestroy

SpecTitles == InitTitles /\ [][NextTitles]_vars

-----------------------------------------------------------------------------
(* Properties of the title specification.                                  *)

\* C11: deleting a category removes only that category: every title is
\* still stored afterwards, a title of the category with its category set
\* to null and any other title with its category as it was, each with its
\* name, year, description and genres unchanged, and the genres, reviews and
\* comments are as they were.
C11_CategoryDeleteSetsNull ==
    [][(resp'.op = "category_destroy" /\ resp'.status = 204) =>
          \E c \in categories :
              /\ categories' = categories \ {c}
              /\ genres' = genres
              /\ reviews' = reviews
              /\ comments' = comments
              /\ titles' = {[t EXCEPT !.category =
                                 IF @ = c.slug THEN Null ELSE @] : t \in titles}
              /\ \A t \in titles : t.category # c.slug => t \in titles']_vars

\* A category was deleted, and a reviewed title that had it is stored with
\* no category next to a title of the other category.
C11_Witness ==
    /\ resp.op = "category_destroy"
    /\ resp.status = 204
    /\ \E t \in titles : t.category = Null /\ ReviewsOfTitle(t.id) # {}
    /\ \E t \in titles : t.category # Null

-----------------------------------------------------------------------------
(* CommentSerializer and CommentViewSet                                    *)

\* Review.objects.filter(id=review_id, title__id=title_id).exists()
ReviewOfTitleExists(title_id, review_id) ==
    \E r \in reviews : r.id = review_id /\ r.title = title_id

\* Comment.objects.filter(review=self.get_review())
CommentsOfReview(review_id) == {c \in comments : c.review = review_id}

\* The field pass of CommentSerializer.is_valid: text is required unless the
\* update is partial, and may not be blank.
CommentSerializer_field_errors(text, partial) ==
    {k \in {"text"} : IF text = Missing THEN ~partial ELSE text = ""}

\* get_object of api/v1 CommentViewSet: the permission of the view, its own
\* check of the path (NotFound), then GenericAPIView.get_object with the
\* permission of the object.
v1_CommentViewSet_get_object(method, caller, title_id, review_id, pk) ==
    IF ~v1_ContentManagePermission_has_permission(method, caller)
    THEN PermissionDenied(caller)
    ELSE IF \/ ~ReviewOfTitleExists(title_id, review_id)
            \/ ~\E c \in CommentsOfReview(review_id) : c.id = pk
    THEN NotFound
    ELSE IF ~v1_ContentManagePermission_has_object_permission(
                method, caller,
                CHOOSE c \in CommentsOfReview(review_id) : c.id = pk)
    THEN PermissionDenied(caller)
    ELSE Response(200, {})

\* get_object of api CommentViewSet: the review is looked up by its id alone,
\* whatever title the path names.
api_CommentViewSet_get_object(method, caller, title_id, review_id, pk) ==
    IF ~api_ContentManagePermission_has_permission(method, caller)
    THEN PermissionDenied(caller)
    ELSE IF ~\E r \in reviews : r.id = review_id
    THEN NotFound
    ELSE IF ~\E c \in CommentsOfReview(review_id) : c.id = pk
    THEN NotFound
    ELSE IF ~api_ContentManagePermission_has_object_permission(
                method, caller,
                CHOOSE c \in CommentsOfReview(review_id) : c.id = pk)
    THEN PermissionDenied(caller)
    ELSE Response(200, {})

CommentViewSet_get_object(method, caller, title_id, review_id, pk) ==
    IF draft = "v1"
    THEN v1_CommentViewSet_get_object(method, caller, title_id, review_id, pk)
    ELSE api_CommentViewSet_get_object(method, caller, title_id, review_id, pk)

\* The response of PATCH /titles/{title_id}/reviews/{review_id}/comments/{pk}/.
\* CommentSerializer.validate of api/v1 repeats the check of the path, which
\* get_object has passed.
CommentViewSet_partial_update_response(caller, title_id, review_id, pk, text) ==
    LET got == CommentViewSet_get_object("PATCH", caller, title_id, review_id, pk)
    IN
    IF got.status # 200
    THEN got
    ELSE IF CommentSerializer_field_errors(text, TRUE) # {}
    THEN Response(400, CommentSerializer_field_errors(text, TRUE))
    ELSE IF draft = "v1" /\ ~ReviewOfTitleExists(title_id, review_id)
    THEN NotFound
    ELSE Response(200, {})

\* The Comment table after that PATCH answered r.
CommentViewSet_partial_update_comments(r, pk, text) ==
    IF r.status = 200 /\ text # Missing
    THEN {IF c.id = pk THEN [c EXCEPT !.text = text] ELSE c : c \in comments}
    ELSE comments

CommentViewSet_partial_update(caller, title_id, review_id, pk, text) ==
    LET r == CommentViewSet_partial_update_response(
                 caller, title_id, review_id, pk, text)
    IN
    /\ comments' = CommentViewSet_partial_update_comments(r, pk, text)
    /\ resp' = [op |-> "comment_partial_update", status |-> r.status,
                errors |-> r.errors, body |-> Null]
    /\ outbox' = <<>>
    /\ UNCHANGED <<inflight, draft, now, users, categories, genres, titles, reviews,
                   nextId>>

\* The response of DELETE /titles/{title_id}/reviews/{review_id}/comments/{pk}/.
CommentViewSet_destroy_response(caller, title_id, review_id, pk) ==
    LET got == CommentViewSet_get_object("DELETE", caller, title_id, review_id, pk)
    IN
    IF got.status # 200 THEN got ELSE Response(204, {})

\* The Comment table after that DELETE answered r.
CommentViewSet_destroy_comments(r, pk) ==
    IF r.status = 204 THEN {c \in comments : c.id # pk} ELSE comments

CommentViewSet_destroy(caller, title_id, review_id, pk) ==
    LET r == CommentViewSet_destroy_response(caller, title_id, review_id, pk) IN
    /\ comments' = CommentViewSet_destroy_comments(r, pk)
    /\ resp' = [op |-> "comment_destroy", status |-> r.status,
                errors |-> r.errors, body |-> Null]
    /\ outbox' = <<>>
    /\ UNCHANGED <<inflight, draft, now, users, categories, genres, titles, reviews,
                   nextId>>

-----------------------------------------------------------------------------
(* The moderation specification: stored reviews and comments, edited and   *)
(* deleted by callers of every role.                                       *)

\* A comment of the moderator on the review of alice, and one of alice on the
\* review of the moderator.
ModerationComments ==
    {[id |-> 1, author |-> 2, review |-> 1, text |-> "yes"],
     [id |-> 2, author |-> 1, review |-> 2, text |-> "no"]}

PathCommentIds == {1, 2}
CommentTextInputs == {"edited", "", Missing}

InitModeration ==
    /\ draft \in Drafts
    /\ inflight = {}
    /\ now = 2024
    /\ users = CatalogUsers
    /\ categories = SeedCategories
    /\ genres = SeedGenres
    /\ titles = CatalogSeedTitles
    /\ reviews = CatalogSeedReviews
    /\ comments = ModerationComments
    /\ outbox = <<>>
    /\ nextId = [user |-> 5, title |-> 2, review |-> 3, comment |-> 3]
    /\ resp = NoResp

CommentPartialUpdate ==
    \E caller \in Callers, title_id \in {1, 2}, review_id \in PathReviewIds,
       pk \in PathCommentIds :
        IF CommentViewSet_get_object(
               "PATCH", caller, title_id, review_id, pk).status # 200
        THEN CommentViewSet_partial_update(
                 caller, title_id, review_id, pk, Missing)
        ELSE \E text \in CommentTextInputs :
                 CommentViewSet_partial_update(
                     caller, title_id, review_id, pk, text)

CommentDestroy ==
    \E caller \in Callers, title_id \in {1, 2}, review_id \in PathReviewIds,
       pk \in PathCommentIds :
        CommentViewSet_destroy(caller, title_id, review_id, pk)

NextModeration ==
    ReviewPartialUpdate \/ ReviewDestroy \/ CommentPartialUpdate \/ CommentDestroy

SpecModeration == InitModeration /\ [][NextModeration]_vars

-----------------------------------------------------------------------------
(* Properties of the moderation specification.                             *)

\* The callers that may write obj: authenticated, and its author, a
\* moderator, an admin or a superuser.
MayWrite(caller, obj) ==
    /\ caller # Anonymous
    /\ \/ obj.author = caller
       \/ UserById(caller).role \in {MODERATOR, ADMIN}
       \/ UserById(caller).is_superuser

Denied(r) == r.status \in {401, 403}

ModerationOps ==
    {"review_partial_update", "review_destroy", "comment_partial_update",
     "comment_destroy"}

\* C12: a PATCH or DELETE on a stored review or comment by a caller who is
\* anonymous, or is neither the author of the object nor a moderator, an
\* admin or a superuser, is denied and leaves the reviews and the comments
\* as they were; so such a request changes them only for the author, a
\* moderator, an admin or a superuser.
C12_ObjectWritesByAuthorOrStaff ==
    /\ [](\A caller \in Callers :
            /\ \A x \in reviews :
                 ~MayWrite(caller, x) =>
                    /\ \A text \in TextInputs, score \in ScoreInputs :
                         LET r == ReviewViewSet_partial_update_response(
                                      caller, x.title, x.id, text, score)
                         IN /\ Denied(r)
                            /\ ReviewViewSet_partial_update_reviews(
                                   r, x.id, text, score) = reviews
                    /\ LET r == ReviewViewSet_destroy_response(
                                    caller, x.title, x.id)
                       IN /\ Denied(r)
                          /\ ReviewViewSet_destroy_reviews(r, x.id) = reviews
            /\ \A c \in comments, x \in reviews :
                 (c.review = x.id /\ ~MayWrite(caller, c)) =>
                    /\ \A text \in CommentTextInputs :
                         LET r == CommentViewSet_partial_update_response(
                                      caller, x.title, x.id, c.id, text)
                         IN /\ Denied(r)
                            /\ CommentViewSet_partial_update_comments(
                                   r, c.id, text) = comments
                    /\ LET r == CommentViewSet_destroy_response(
                                    caller, x.title, x.id, c.id)
                       IN /\ Denied(r)
                          /\ CommentViewSet_destroy_comments(r, c.id) = comments)
    /\ [][(resp'.op \in ModerationOps /\ Denied(resp'))
            => (reviews' = reviews /\ comments' = comments)]_vars

\* A write was denied (403) after an earlier one had changed a review and a
\* comment.
C12_Witness ==
    /\ resp.op \in ModerationOps
    /\ resp.status = 403
    /\ reviews # CatalogSeedReviews
    /\ comments # ModerationComments
    /\ reviews # {}
    /\ comments # {}

-----------------------------------------------------------------------------
(* IsAdminPermission, IsUserPermissions; UserSerializer,                   *)
(* UserUpdateSerializer, MeSerializer                                      *)

\* IsAdminPermission that admits every authenticated caller.
v1_IsAdminPermission_has_permission_authenticated(caller) ==
    is_authenticated(caller)

v1_IsAdminPermission_has_permission(caller) ==
    is_authenticated(caller) /\ is_admin(UserById(caller))

api_IsAdminPermission_has_permission(caller) ==
    /\ is_authenticated(caller)
    /\ (is_superuser(caller) \/ is_admin(UserById(caller)))

IsAdminPermission_has_permission(caller) ==
    IF draft = "v1"
    THEN v1_IsAdminPermission_has_permission(caller)
    ELSE api_IsAdminPermission_has_permission(caller)

IsUserPermissions_has_permission(caller) == is_authenticated(caller)

\* The rows a UniqueValidator compares with: all rows on create (instance
\* 0), all rows but the instance on update.
OtherUsers(instance) == {u \in users : u.id # instance}

UsernameTaken(value, us) == \E u \in us : u.username = value

EmailTaken(value, us) == \E u \in us : u.email = value

\* The username and email of the body as the CharFields read them.
Read(body, field) == Trim(body[field])

\* A role field that takes every value.
RoleErrors_any(body) == {}

\* The errors of the role field (a ChoiceField over USERS), where the
\* serializer writes it.
RoleErrors(body) == {e \in {"role.invalid"} : Has(body, "role") /\ body.role \notin USERS}

\* UserSerializer of api/v1, a ModelSerializer without validators of its
\* own: username and email are required (unless partial) and unique, the
\* email is an email, the role is one of the choices.
v1_UserSerializer_errors(body, instance, partial) ==
    {e \in {"username.required"} : ~Has(body, "username") /\ ~partial}
    \cup {e \in {"username.exists"} :
            /\ Has(body, "username")
            /\ UsernameTaken(Read(body, "username"), OtherUsers(instance))}
    \cup {e \in {"email.required"} : ~Has(body, "email") /\ ~partial}
    \cup {e \in {"email.invalid"} :
            Has(body, "email") /\ ~EmailValidatorAccepts(Read(body, "email"))}
    \cup {e \in {"email.exists"} :
            /\ Has(body, "email")
            /\ EmailTaken(Read(body, "email"), OtherUsers(instance))}
    \cup RoleErrors(body)

\* MeSerializer of api/v1: UserSerializer with role read-only, so a role in
\* the body is not looked at.
v1_MeSerializer_errors(body, instance) ==
    v1_UserSerializer_errors(body, instance, TRUE) \ {"role.invalid"}

\* The errors of the username field of the api serializers that carry
\* RegexValidator and validate_username.
api_username_errors(body) ==
    {e \in {"username.invalid"} :
        Has(body, "username") /\ ~UsernamePatternMatches(Read(body, "username"))}
    \cup {e \in {"username.forbidden"} :
            /\ Has(body, "username")
            /\ UsernamePatternMatches(Read(body, "username"))
            /\ ~validate_username_me(Read(body, "username"))}

\* The errors of the email field of the api serializers (EmailValidator and
\* the UniqueValidator of the model field).
api_email_errors(body, instance) ==
    {e \in {"email.invalid"} :
        Has(body, "email") /\ ~EmailValidatorAccepts(Read(body, "email"))}
    \cup {e \in {"email.exists"} :
            /\ Has(body, "email")
            /\ EmailTaken(Read(body, "email"), OtherUsers(instance))}

\* UserSerializer of api (POST /users/): the field pass, then validate.
api_UserSerializer_errors(body) ==
    LET field_errors ==
            api_username_errors(body) \cup api_email_errors(body, 0)
            \cup RoleErrors(body)
    IN
    IF field_errors # {}
    THEN field_errors
    ELSE IF ~Has(body, "username")
    THEN {"username.required"}
    ELSE IF ~Has(body, "email")
    THEN {"email.required"}
    ELSE IF UsernameTaken(Read(body, "username"), users)
    THEN {"username.exists"}
    ELSE IF EmailTaken(Read(body, "email"), users)
    THEN {"email.exists"}
    ELSE {}

\* UserUpdateSerializer of api (PATCH /users/{username}/): the field pass
\* (UniqueValidator, validate_username), then validate, which compares with
\* every row, the instance included.
api_UserUpdateSerializer_errors(body, instance) ==
    LET field_errors ==
            {e \in {"username.exists"} :
                /\ Has(body, "username")
                /\ UsernameTaken(Read(body, "username"), OtherUsers(instance))}
            \cup {e \in {"username.forbidden"} :
                    /\ Has(body, "username")
                    /\ ~UsernameTaken(Read(body, "username"), OtherUsers(instance))
                    /\ ~validate_username_me(Read(body, "username"))}
            \cup api_email_errors(body, instance)
            \cup RoleErrors(body)
    IN
    IF field_errors # {}
    THEN field_errors
    ELSE IF Has(body, "username") /\ UsernameTaken(Read(body, "username"), users)
    THEN {"username.exists"}
    ELSE IF Has(body, "email") /\ EmailTaken(Read(body, "email"), users)
    THEN {"email.exists"}
    ELSE {}

\* MeSerializer of api: the field pass, then validate; "KeyError" stands for
\* the exception of data['email'] on a body with a username and no email.
api_MeSerializer_errors(body, instance) ==
    LET field_errors ==
            api_username_errors(body) \cup api_email_errors(body, instance)
    IN
    IF field_errors # {}
    THEN field_errors
    ELSE IF ~Has(body, "username")
    THEN {}
    ELSE IF UsernameTaken(Read(body, "username"), users)
    THEN {"username.exists"}
    ELSE IF ~Has(body, "email")
    THEN {"KeyError"}
    ELSE IF EmailTaken(Read(body, "email"), users)
    THEN {"email.exists"}
    ELSE {}

\* The response to a body with these errors.
Invalid(errors) ==
    IF "KeyError" \in errors THEN ServerError ELSE Response(400, errors)

\* serializer.save() of an update: the fields of the body that the
\* serializer writes.
UpdatedUser(u, body, writable) ==
    [u EXCEPT
       !.username = IF Has(body, "username") /\ "username" \in writable
                    THEN Read(body, "username") ELSE @,
       !.email = IF Has(body, "email") /\ "email" \in writable
                 THEN Read(body, "email") ELSE @,
       !.role = IF Has(body, "role") /\ "role" \in writable
                THEN body.role ELSE @]

\* UserSerializer / MeSerializer .to_representation, without the name and
\* bio fields.
UserSerializer_data(u) ==
    [username |-> u.username, email |-> u.email, role |-> u.role]

-----------------------------------------------------------------------------
(* UserAdminViewSet                                                        *)

UserByUsername(username) == CHOOSE u \in users : u.username = username

\* The body of a request as the handler of this draft validates it on
\* POST /users/.
UserSerializer_errors(body) ==
    IF draft = "v1"
    THEN v1_UserSerializer_errors(body, 0, FALSE)
    ELSE api_UserSerializer_errors(body)

\* get_serializer_class on PATCH /users/{username}/: UserSerializer in
\* api/v1, UserUpdateSerializer in api.
UserUpdateSerializer_errors(body, instance) ==
    IF draft = "v1"
    THEN v1_UserSerializer_errors(body, instance, TRUE)
    ELSE api_UserUpdateSerializer_errors(body, instance)

MeSerializer_errors(body, instance) ==
    IF draft = "v1"
    THEN v1_MeSerializer_errors(body, instance)
    ELSE api_MeSerializer_errors(body, instance)

\* serializer.save() of POST /users/: a row with the role of the body, or
\* the default role.
CreatedUser(body, code) ==
    [NewUser(Read(body, "username"), Read(body, "email"), code)
        EXCEPT !.role = IF Has(body, "role") THEN body.role ELSE @]

\* GET /users/
UserAdminViewSet_list(caller) ==
    IF ~IsAdminPermission_has_permission(caller)
    THEN Refused(PermissionDenied(caller))
    ELSE Refused(Success(200, {UserSerializer_data(u) : u \in users}))

\* GET /users/{username}/
UserAdminViewSet_retrieve(caller, username) ==
    IF ~IsAdminPermission_has_permission(caller)
    THEN Refused(PermissionDenied(caller))
    ELSE IF ~UsernameTaken(username, users)
    THEN Refused(NotFound)
    ELSE Refused(Success(200, UserSerializer_data(UserByUsername(username))))

\* POST /users/
UserAdminViewSet_create(caller, body, code) ==
    IF ~IsAdminPermission_has_permission(caller)
    THEN Refused(PermissionDenied(caller))
    ELSE IF UserSerializer_errors(body) # {}
    THEN Refused(Invalid(UserSerializer_errors(body)))
    ELSE LET u == CreatedUser(body, code) IN
         Outcome(Success(201, UserSerializer_data(u)), users \cup {u}, <<>>)

\* PATCH /users/{username}/
UserAdminViewSet_partial_update(caller, username, body) ==
    IF ~IsAdminPermission_has_permission(caller)
    THEN Refused(PermissionDenied(caller))
    ELSE IF ~UsernameTaken(username, users)
    THEN Refused(NotFound)
    ELSE LET u == UserByUsername(username)
             errors == UserUpdateSerializer_errors(body, u.id)
             saved == UpdatedUser(u, body, {"username", "email", "role"})
         IN
         IF errors # {}
         THEN Refused(Invalid(errors))
         ELSE Outcome(Success(200, UserSerializer_data(saved)),
                      (users \ {u}) \cup {saved}, <<>>)

\* DELETE /users/{username}/
UserAdminViewSet_destroy(caller, username) ==
    IF ~IsAdminPermission_has_permission(caller)
    THEN Refused(PermissionDenied(caller))
    ELSE IF ~UsernameTaken(username, users)
    THEN Refused(NotFound)
    ELSE Outcome(Response(204, {}), users \ {UserByUsername(username)}, <<>>)

\* GET and PATCH /users/me/
UserAdminViewSet_me(method, caller, body) ==
    IF ~IsUserPermissions_has_permission(caller)
    THEN Refused(PermissionDenied(caller))
    ELSE LET u == UserById(caller)
             errors == MeSerializer_errors(body, u.id)
             saved == UpdatedUser(u, body, {"username", "email"})
         IN
         IF method # "PATCH"
         THEN Refused(Success(200, UserSerializer_data(u)))
         ELSE IF errors # {}
         THEN Refused(Invalid(errors))
         ELSE Outcome(Success(200, UserSerializer_data(saved)),
                      (users \ {u}) \cup {saved}, <<>>)

\* One request to UserAdminViewSet served: the table written, the reviews
\* and comments of a deleted author deleted with it (on_delete=CASCADE).
ServeUser(op, caller, o) ==
    /\ Cardinality(o.users) > Cardinality(users) => nextId.user <= MaxUserId
    /\ users' = o.users
    /\ nextId' = IF Cardinality(o.users) > Cardinality(users)
                 THEN [nextId EXCEPT !.user = @ + 1]
                 ELSE nextId
    /\ reviews' = {r \in reviews : \E u \in o.users : u.id = r.author}
    /\ comments' = {c \in comments :
                      /\ \E u \in o.users : u.id = c.author
                      /\ \E r \in reviews' : r.id = c.review}
    /\ outbox' = o.outbox
    /\ resp' = [op |-> op, status |-> o.resp.status,
                errors |-> o.resp.errors, body |-> o.resp.body,
                caller |-> caller]
    /\ UNCHANGED <<inflight, draft, now, categories, genres, titles>>

-----------------------------------------------------------------------------
(* The specification of the user table: signup, the admin's endpoints and  *)
(* /users/me/                                                              *)

\* dave is a superuser with the default role, carol a plain user.
UserSpecUsers ==
    {Account(1, "dave", "dave@x.org", USER, TRUE, "k1"),
     Account(2, "carol", "carol@x.org", USER, FALSE, "k1")}

SignupUsernames == {"bob", "carol"}

SignupEmails == {"bob@x.org", "carol@x.org"}

UserCode == "k1"

UserBodies ==
    {[username |-> "bob", email |-> "bob@x.org"],
     [username |-> "bob", email |-> "bob@x.org", role |-> ADMIN],
     [username |-> "bob", email |-> "bob@x.org", role |-> "root"],
     [username |-> "carol", email |-> "bob@x.org"]}

UserPatches == {[role |-> MODERATOR], [role |-> "root"]}

MePatches == {[role |-> ADMIN], [role |-> "root", email |-> "zoe@x.org"]}

PathUsernames == {"carol", "bob", "ghost"}

InitUsers ==
    /\ draft \in Drafts
    /\ inflight = {}
    /\ now = 2024
    /\ users = UserSpecUsers
    /\ categories = {}
    /\ genres = {}
    /\ titles = {}
    /\ reviews = {}
    /\ comments = {}
    /\ outbox = <<>>
    /\ nextId = [user |-> 3, title |-> 1, review |-> 1, comment |-> 1]
    /\ resp = NoResp

UserSignup ==
    \E username \in SignupUsernames, email \in SignupEmails :
        \/ signup(username, email, UserCode)
        \/ SignUpViewSet_create(username, email, UserCode)

UserList ==
    \E caller \in Callers : ServeUser("user_list", caller, UserAdminViewSet_list(caller))

UserRetrieve ==
    \E caller \in Callers :
        \E username \in IF IsAdminPermission_has_permission(caller)
                        THEN PathUsernames ELSE {"carol"} :
            ServeUser("user_retrieve", caller, UserAdminViewSet_retrieve(caller, username))

UserCreate ==
    \E caller \in Callers :
        \E body \in IF IsAdminPermission_has_permission(caller)
                    THEN UserBodies ELSE {Unread} :
            ServeUser("user_create", caller,
                      UserAdminViewSet_create(caller, body, UserCode))

UserPartialUpdate ==
    \E caller \in Callers :
        \E username \in IF IsAdminPermission_has_permission(caller)
                        THEN PathUsernames ELSE {"carol"} :
            \E body \in IF IsAdminPermission_has_permission(caller)
                        THEN UserPatches ELSE {Unread} :
                ServeUser("user_partial_update", caller,
                          UserAdminViewSet_partial_update(caller, username, body))

UserDestroy ==
    \E caller \in Callers :
        \E username \in IF IsAdminPermission_has_permission(caller)
                        THEN PathUsernames ELSE {"carol"} :
            ServeUser("user_destroy", caller, UserAdminViewSet_destroy(caller, username))

MeRetrieve ==
    \E caller \in Callers :
        ServeUser("me_retrieve", caller, UserAdminViewSet_me("GET", caller, Unread))

MePartialUpdate ==
    \E caller \in Callers :
        \E body \in IF IsUserPermissions_has_permission(caller)
                    THEN MePatches ELSE {Unread} :
            ServeUser("me_partial_update", caller,
                      UserAdminViewSet_me("PATCH", caller, body))

NextUsers ==
    \/ UserSignup
    \/ UserList
    \/ UserRetrieve
    \/ UserCreate
    \/ UserPartialUpdate
    \/ UserDestroy
    \/ MeRetrieve
    \/ MePartialUpdate

SpecUsers == InitUsers /\ [][NextUsers]_vars

-----------------------------------------------------------------------------
(* The administration of users                                             *)

\* The callers the administration of users is for: the admin role and the
\* superuser.
IsAdministrator(caller) ==
    /\ caller # Anonymous
    /\ (UserById(caller).role = ADMIN \/ UserById(caller).is_superuser)

\* An outcome that admits the administrators among the callers and denies
\* the rest without a write.
ForAdministrators(caller, o) ==
    IF IsAdministrator(caller)
    THEN ~Denied(o.resp)
    ELSE Denied(o.resp) /\ o.users = users

UserAdminOps ==
    {"user_list", "user_retrieve", "user_create", "user_partial_update",
     "user_destroy"}

\* C13: every request to /users/ and /users/{username}/ (list, retrieve,
\* create, partial update, delete) is served for an authenticated caller
\* with the admin role or the superuser flag only; an anonymous caller, a
\* user and a moderator are denied (401 or 403) and the user table is left
\* as it was.
C13_UsersForAdministratorsOnly ==
    /\ [](\A caller \in Callers :
            /\ ForAdministrators(caller, UserAdminViewSet_list(caller))
            /\ \A username \in PathUsernames :
                /\ ForAdministrators(caller,
                                     UserAdminViewSet_retrieve(caller, username))
                /\ ForAdministrators(caller,
                                     UserAdminViewSet_destroy(caller, username))
                /\ \A body \in UserPatches :
                    ForAdministrators(
                        caller,
                        UserAdminViewSet_partial_update(caller, username, body))
            /\ \A body \in UserBodies :
                ForAdministrators(caller,
                                  UserAdminViewSet_create(caller, body, UserCode)))
    /\ [][(resp'.op \in UserAdminOps /\ ~IsAdministrator(resp'.caller)) =>
            (Denied(resp') /\ users' = users)]_vars

\* A moderator asked for a user to be deleted and was refused, and an
\* administrator other than the superuser is in the table.
C13_Witness ==
    /\ resp.op = "user_destroy"
    /\ resp.status = 403
    /\ UserById(resp.caller).role = MODERATOR
    /\ \E u \in users : u.role = ADMIN /\ ~u.is_superuser

-----------------------------------------------------------------------------
(* The specification of usernames and emails: signup, POST /users/,        *)
(* PATCH /users/{username}/ and PATCH /users/me/                           *)

ProfileSignupUsernames == {"bob", "carol", " carol", "me", "Me"}

ProfileBodies ==
    {[username |-> "bob", email |-> "bob@x.org"],
     [username |-> "me", email |-> "bob@x.org"],
     [username |-> "carol", email |-> "bob@x.org"],
     [username |-> "bob", email |-> "carol@x.org"]}

ProfilePatches ==
    {[username |-> "me"], [username |-> "dave"], [username |-> "carol"],
     [email |-> "dave@x.org"]}

ProfileMePatches ==
    {[username |-> "me"], [username |-> "zoe"],
     [username |-> "zoe", email |-> "zoe@x.org"],
     [username |-> "carol"], [email |-> "dave@x.org"],
     [role |-> ADMIN, email |-> "zoe@x.org"]}

ProfilePathUsernames == {"carol", "ghost"}

ProfileSignup ==
    \E username \in ProfileSignupUsernames, email \in SignupEmails :
        \/ signup(username, email, UserCode)
        \/ SignUpViewSet_create(username, email, UserCode)

ProfileCreate ==
    \E caller \in Callers :
        \E body \in IF IsAdminPermission_has_permission(caller)
                    THEN ProfileBodies ELSE {Unread} :
            ServeUser("user_create", caller,
                      UserAdminViewSet_create(caller, body, UserCode))

ProfilePartialUpdate ==
    \E caller \in Callers :
        \E username \in IF IsAdminPermission_has_permission(caller)
                        THEN ProfilePathUsernames ELSE {"carol"} :
            \E body \in IF IsAdminPermission_has_permission(caller)
                        THEN ProfilePatches ELSE {Unread} :
                ServeUser("user_partial_update", caller,
                          UserAdminViewSet_partial_update(caller, username, body))

ProfileMePartialUpdate ==
    \E caller \in Callers :
        \E body \in IF IsUserPermissions_has_permission(caller)
                    THEN ProfileMePatches ELSE {Unread} :
            ServeUser("me_partial_update", caller,
                      UserAdminViewSet_me("PATCH", caller, body))

NextProfile ==
    \/ ProfileSignup
    \/ ProfileCreate
    \/ ProfilePartialUpdate
    \/ ProfileMePartialUpdate

SpecProfile == InitUsers /\ [][NextProfile]_vars

-----------------------------------------------------------------------------
(* The user's own profile                                                  *)

\* A body whose username and email are well formed, not a spelling of "me"
\* and not held by another user: an update the user is entitled to.
OwnUpdate(body, me) ==
    /\ Has(body, "username") =>
        /\ UsernamePatternMatches(Read(body, "username"))
        /\ Lower(Read(body, "username")) # "me"
        /\ ~UsernameTaken(Read(body, "username"), users \ {me})
    /\ Has(body, "email") =>
        /\ EmailValidatorAccepts(Read(body, "email"))
        /\ ~EmailTaken(Read(body, "email"), users \ {me})

\* C14: an authenticated user updates the own profile with PATCH /users/me/
\* and any subset of the profile fields; whatever the body holds, a role
\* included, the caller's role is the same after the request and no other
\* user's row is changed.
C14_OwnProfileUpdate ==
    \A caller \in Callers \ {Anonymous} :
        \A body \in ProfileMePatches :
            LET me == UserById(caller)
                o == UserAdminViewSet_me("PATCH", caller, body)
            IN
            /\ OwnUpdate(body, me) =>
                /\ o.resp.status = 200
                /\ o.users = (users \ {me})
                               \cup {UpdatedUser(me, body, {"username", "email"})}
            /\ \A u \in users \ {me} : u \in o.users
            /\ \A u \in o.users : u.id = me.id => u.role = me.role

-----------------------------------------------------------------------------
(* The reserved username                                                   *)

\* C15: in every state reached by signup, POST /users/, PATCH
\* /users/{username}/ and PATCH /users/me/ no stored user has the username
\* "me", in any letter case.
C15_NoUserNamedMe == \A u \in users : Lower(u.username) # "me"

-----------------------------------------------------------------------------
(* Roles                                                                   *)

\* The body without its role.
WithoutRole(body) == [f \in DOMAIN body \ {"role"} |-> body[f]]

SuppliesOtherRole(body) == Has(body, "role") /\ body.role \notin USERS

\* A request that was turned down and wrote nothing.
Rejected(o) == o.resp.status \in {400, 401, 403, 404} /\ o.users = users

RolesAreChoices == \A u \in users : u.role \in USERS

\* The row a signup inserts has the default role.
SignupGivesUser ==
    resp'.op = "signup" =>
        \A u \in users' : (\A v \in users : v.id # u.id) => u.role = USER

\* POST /users/ and PATCH /users/{username}/ turn down a body with a role
\* that is not a choice.
AdminRoutesRejectOtherRole ==
    \A caller \in Callers :
        /\ \A body \in UserBodies :
            SuppliesOtherRole(body) =>
                Rejected(UserAdminViewSet_create(caller, body, UserCode))
        /\ \A username \in PathUsernames, body \in UserPatches :
            SuppliesOtherRole(body) =>
                Rejected(UserAdminViewSet_partial_update(caller, username, body))

\* C16 as stated, for the requests that carry a role: every stored role is
\* user, moderator or admin, and every request that supplies another role
\* value is rejected with the user table unchanged, PATCH /users/me/
\* included.
C16_OtherRoleRejected ==
    /\ RolesAreChoices
    /\ AdminRoutesRejectOtherRole
    /\ \A caller \in Callers, body \in MePatches :
        SuppliesOtherRole(body) =>
            Rejected(UserAdminViewSet_me("PATCH", caller, body))

\* C16, amended: every stored role is user, moderator or admin, signup
\* gives the role user, POST /users/ and PATCH /users/{username}/ reject a
\* body with another role value and leave the user table unchanged, and
\* PATCH /users/me/ does not read the role of the body: it answers as it
\* answers the body without the role.
C16_RolesAreChoices ==
    /\ [](/\ RolesAreChoices
          /\ AdminRoutesRejectOtherRole
          /\ \A caller \in Callers \ {Anonymous}, body \in MePatches :
                UserAdminViewSet_me("PATCH", caller, body)
                    = UserAdminViewSet_me("PATCH", caller, WithoutRole(body)))
    /\ [][SignupGivesUser]_vars

\* PATCH /users/me/ with the role "root" and a new email was answered 200:
\* the email is stored, the role is the one the caller had; a moderator and
\* an account from signup are in the table.
C16_Witness ==
    /\ resp.op = "me_partial_update"
    /\ resp.status = 200
    /\ UserById(resp.caller).email = "zoe@x.org"
    /\ UserById(resp.caller).role = MODERATOR
    /\ \E u \in users : u.username = "bob" /\ u.role = USER

-----------------------------------------------------------------------------
(* Unique usernames and emails                                             *)

UsernamesAndEmailsUnique ==
    \A u, v \in users :
        u.id # v.id => u.username # v.username /\ u.email # v.email

\* The body would give the row (a new row for instance 0) a username or an
\* email that another row holds.
WouldDuplicate(body, instance) ==
    \/ Has(body, "username")
         /\ UsernameTaken(Read(body, "username"), OtherUsers(instance))
    \/ Has(body, "email") /\ EmailTaken(Read(body, "email"), OtherUsers(instance))

\* The username get_or_create is given on signup: that of request.data in
\* api/v1, that of validated_data in api.
SignupUsername(username) == IF draft = "v1" THEN username ELSE Trim(username)

\* A validation error and no write.
Invalidated(o) == o.resp.status = 400 /\ o.users = users

\* C17: no two stored users share a username or an email, whatever signup,
\* POST /users/, PATCH /users/{username}/ and PATCH /users/me/ are sent; a
\* request that would create a duplicate is answered with a validation
\* error and the user table is left as it was.
C17_UsernamesAndEmailsUnique ==
    /\ UsernamesAndEmailsUnique
    /\ \A username \in ProfileSignupUsernames, email \in SignupEmails :
        (\E u \in users :
            (u.username = SignupUsername(username)) # (u.email = email)) =>
            Invalidated(SignupOutcome(username, email, UserCode))
    /\ \A caller \in Callers :
        /\ IsAdministrator(caller) =>
            /\ \A body \in ProfileBodies :
                WouldDuplicate(body, 0) =>
                    Invalidated(UserAdminViewSet_create(caller, body, UserCode))
            /\ \A username \in ProfilePathUsernames, body \in ProfilePatches :
                /\ UsernameTaken(username, users)
                /\ WouldDuplicate(body, UserByUsername(username).id)
                => Invalidated(
                       UserAdminViewSet_partial_update(caller, username, body))
        /\ caller # Anonymous =>
            \A body \in ProfileMePatches :
                WouldDuplicate(body, caller) =>
                    Invalidated(UserAdminViewSet_me("PATCH", caller, body))

-----------------------------------------------------------------------------
(* The year of a title                                                     *)

YearOf(body) == year_to_internal_value(body.year)

\* The answer to a write with a year after the current one: nothing is
\* written, and a caller who may write is told that the year is invalid.
FutureYearRejected(caller, o) ==
    /\ o.titles = titles
    /\ o.resp.status \in {400, 401, 403}
    /\ IsAdministrator(caller) => o.resp.status = 400 /\ "year" \in o.resp.errors

\* C18: a title create or update with a year greater than the current year
\* is rejected with a validation error and the title set is unchanged; a
\* year equal to the current year is accepted; no stored title has a year
\* after the current one.
C18_FutureYearRejected ==
    /\ \A t \in titles : t.year <= now
    /\ \A caller \in Callers :
        /\ \A body \in TitleWriteBodies :
            LET o == TitleViewSet_create(caller, body) IN
            Has(body, "year") =>
                /\ YearOf(body) > now => FutureYearRejected(caller, o)
                /\ (/\ YearOf(body) = now
                    /\ IsAdministrator(caller)
                    /\ TitleWriteSerializer_errors(body, FALSE) \ {"year"} = {})
                   => /\ o.resp.status = 201
                      /\ \E t \in o.titles \ titles : t.year = now
        /\ \A t \in titles, body \in TitleWritePatches :
            LET o == TitleViewSet_partial_update(caller, t.id, body) IN
            Has(body, "year") =>
                /\ YearOf(body) > now => FutureYearRejected(caller, o)
                /\ (YearOf(body) = now /\ IsAdministrator(caller))
                   => /\ o.resp.status = 200
                      /\ o.titles = (titles \ {t}) \cup {[t EXCEPT !.year = now]}

\* A title of the current year was created, the year of another was set to
\* the current year, and the last request, an update with the next year,
\* was answered 400 for its year.
C18_Witness ==
    /\ resp.op = "title_partial_update"
    /\ resp.status = 400
    /\ resp.errors = {"year"}
    /\ Cardinality(titles) = 2
    /\ \A t \in titles : t.year = now

-----------------------------------------------------------------------------
(* The category and the genres of a title                                  *)

\* A body for POST without a category or without a genre.
LacksCategoryOrGenre(body) ==
    \/ ~Has(body, "category")
    \/ ~Has(body, "genre")
    \/ body.category = Null
    \/ body.genre = {}

\* A body for PATCH with a null category or an empty genre list.
SuppliesNullOrEmpty(body) ==
    \/ Has(body, "category") /\ body.category = Null
    \/ Has(body, "genre") /\ body.genre = {}

TitleWriteRejected(caller, o) ==
    /\ o.titles = titles
    /\ o.resp.status \in {400, 401, 403}
    /\ IsAdministrator(caller) => o.resp.status = 400

IncompleteWritesRejected ==
    \A caller \in Callers :
        /\ \A body \in TitleWriteBodies :
            LacksCategoryOrGenre(body) =>
                TitleWriteRejected(caller, TitleViewSet_create(caller, body))
        /\ \A t \in titles, body \in TitleWritePatches :
            SuppliesNullOrEmpty(body) =>
                TitleWriteRejected(
                    caller, TitleViewSet_partial_update(caller, t.id, body))

\* The step is a title create or update that was accepted.
AcceptedTitleWrite ==
    /\ resp'.op \in {"title_create", "title_partial_update"}
    /\ resp'.status \in {200, 201}

\* C19 as stated: a create without category or genre and an update with a
\* null category or an empty genre list are rejected, and every title has a
\* category and at least one genre right after any accepted write.
C19_EveryTitleCategorized ==
    /\ []IncompleteWritesRejected
    /\ [][AcceptedTitleWrite =>
            \A t \in titles' : t.category # Null /\ t.genre # {}]_vars

\* C19, amended: a create without category or genre and an update with a
\* null category or an empty genre list are rejected, and no accepted write
\* takes the category or the last genre from a title: a title without a
\* category (without genres) after an accepted write had none before it,
\* its category (its genres) having been deleted.
C19_WritesKeepCategoryAndGenre ==
    /\ []IncompleteWritesRejected
    /\ [][AcceptedTitleWrite =>
            \A t \in titles' :
                /\ t.category = Null =>
                    \E old \in titles : old.id = t.id /\ old.category = Null
                /\ t.genre = {} =>
                    \E old \in titles : old.id = t.id /\ old.genre = {}]_vars

\* The category and the genre of a title were deleted, and then an update
\* of its year was accepted; a second title was created with both.
C19_Witness ==
    /\ resp.op = "title_partial_update"
    /\ resp.status = 200
    /\ \E t \in titles : t.category = Null /\ t.genre = {} /\ t.year = now
    /\ \E t \in titles : t.category # Null /\ t.id = 2

-----------------------------------------------------------------------------
(* The specification of ratings: reviews are written and titles are read   *)

NextRating ==
    \/ ReviewCreate
    \/ ReviewPartialUpdate
    \/ ReviewDestroy
    \/ TitleList
    \/ TitleRetrieve

SpecRating == Init /\ [][NextRating]_vars

\* The titles of the last response, when it is an answer to a read of
\* titles.
TitlesShown ==
    IF resp.status # 200
    THEN {}
    ELSE IF resp.op = "title_list"
    THEN resp.body
    ELSE IF resp.op = "title_retrieve"
    THEN {resp.body}
    ELSE {}

\* The rating of data is the average of the scores of the title's reviews,
\* null without reviews.
IsAverage(data) ==
    LET rs == ReviewsOfTitle(data.id) IN
    IF rs = {}
    THEN data.rating = None
    ELSE /\ data.rating # None
         /\ data.rating[1] * Cardinality(rs) = SumScores(rs)

\* The rating of data is the whole part of the average of the scores of the
\* title's reviews, null without reviews.
IsWholePartOfAverage(data) ==
    LET rs == ReviewsOfTitle(data.id) IN
    IF rs = {}
    THEN data.rating = None
    ELSE /\ data.rating # None
         /\ data.rating[1] * Cardinality(rs) <= SumScores(rs)
         /\ SumScores(rs) < (data.rating[1] + 1) * Cardinality(rs)

\* C20 as stated: the rating a title list or retrieve shows is null exactly
\* when the title has no reviews and is otherwise the average of the scores
\* of the reviews the title has at that moment.
C20_RatingIsAverage == \A data \in TitlesShown : IsAverage(data)

\* C20, amended: the rating a title list or retrieve shows is null exactly
\* when the title has no reviews and is otherwise the average of the scores
\* of the reviews the title has at that moment, cut to its whole part.
C20_RatingIsWholePartOfAverage ==
    \A data \in TitlesShown : IsWholePartOfAverage(data)

\* A title with the scores 1 and 10 is shown with the rating 5, after a
\* review was deleted and written again.
C20_Witness ==
    /\ resp.op = "title_retrieve"
    /\ resp.status = 200
    /\ resp.body.rating = Some(5)
    /\ {r.score : r \in ReviewsOfTitle(resp.body.id)} = {1, 10}
    /\ nextId.review > 2

-----------------------------------------------------------------------------
(* The specification of genres and categories: list, create, destroy and   *)
(* the methods /genres/{slug}/ and /categories/{slug}/ have no handler for *)

\* The methods of a detail route that CreateListDestroyModelMixin binds no
\* action to.
DetailMethods == {"GET", "PUT", "PATCH"}

DetailOp(resource, method) ==
    IF resource = "genres"
    THEN [GET |-> "genre_get", PUT |-> "genre_put", PATCH |-> "genre_patch"][method]
    ELSE [GET |-> "category_get", PUT |-> "category_put",
          PATCH |-> "category_patch"][method]

DetailOps ==
    {DetailOp(resource, method) :
        resource \in {"genres", "categories"}, method \in DetailMethods}

GenreDetail ==
    \E caller \in Callers, slug \in PathGenreSlugs, method \in DetailMethods :
        Serve(DetailOp("genres", method), caller,
              http_method_not_allowed(method, caller))

CategoryDetail ==
    \E caller \in Callers, slug \in PathCategorySlugs, method \in DetailMethods :
        Serve(DetailOp("categories", method), caller,
              http_method_not_allowed(method, caller))

NextSlugs ==
    \/ GenreList \/ GenreCreate \/ GenreDestroy
    \/ CategoryList \/ CategoryCreate \/ CategoryDestroy
    \/ GenreDetail \/ CategoryDetail

SpecSlugs == InitCatalog /\ [][NextSlugs]_vars

\* C21: genres and categories expose create, list and delete only: a GET,
\* PUT or PATCH on /genres/{slug}/ or /categories/{slug}/ is rejected for
\* every caller, the admin and the superuser included (405 for a caller the
\* permission admits, 401 or 403 before that), and the stored genres and
\* categories are left as they were.
C21_NoDetailRoutes ==
    /\ [](\A caller \in Callers, method \in DetailMethods :
            LET o == http_method_not_allowed(method, caller) IN
            /\ o.resp.status \in {401, 403, 405}
            /\ IsAdministrator(caller) => o.resp.status = 405
            /\ <<o.titles, o.genres, o.categories>> = catalog)
    /\ [][resp'.op \in DetailOps =>
            /\ resp'.status \in {401, 403, 405}
            /\ genres' = genres
            /\ categories' = categories]_vars

\* The admin sent a PATCH to /genres/{slug}/ and was answered 405, after a
\* genre had been deleted through the route that exists.
C21_Witness ==
    /\ resp.op = "genre_patch"
    /\ resp.status = 405
    /\ resp.caller = 3
    /\ genres # SeedGenres

-----------------------------------------------------------------------------
(* perform_create of ReviewViewSet and CommentViewSet; CommentViewSet       *)
(* create, list and retrieve                                               *)

\* What a body holds under a key, Missing without the key.
Field(body, f) == IF Has(body, f) THEN body[f] ELSE Missing

\* serializer.validated_data: the fields of the body the serializer writes;
\* read-only fields and keys that are no fields of it are dropped.
validated_data(body, writable) == [f \in DOMAIN body \cap writable |-> body[f]]

\* serializer.save(**kwargs): validated_data with the keyword arguments laid
\* over it.
serializer_save(validated, kwargs) ==
    [f \in DOMAIN validated \cup DOMAIN kwargs |->
        IF f \in DOMAIN kwargs THEN kwargs[f] ELSE validated[f]]

\* The fields of ReviewSerializer and CommentSerializer that are written:
\* id and pub_date are set by the model, author is read_only, title and
\* review are no fields of the serializers.
ReviewSerializer_writable == {"text", "score"}

CommentSerializer_writable == {"text"}

\* A save that lets the body name the author and the title.
ReviewViewSet_perform_create_from_body(caller, title_id, body) ==
    [id |-> nextId.review,
     author |-> IF Has(body, "author") THEN body.author ELSE caller,
     title |-> IF Has(body, "title") THEN body.title ELSE title_id,
     text |-> body.text, score |-> score_to_internal_value(body.score)]

\* ReviewViewSet.perform_create: the row of
\* serializer.save(title=self.get_title(), author=self.request.user).
ReviewViewSet_perform_create(caller, title_id, body) ==
    LET attrs == serializer_save(
                     validated_data(body, ReviewSerializer_writable),
                     [title |-> title_id, author |-> caller])
    IN [id |-> nextId.review, author |-> attrs.author, title |-> attrs.title,
        text |-> attrs.text, score |-> score_to_internal_value(attrs.score)]

\* CommentViewSet.perform_create: the row of
\* serializer.save(review=self.get_review(), author=self.request.user).
CommentViewSet_perform_create(caller, review_id, body) ==
    LET attrs == serializer_save(
                     validated_data(body, CommentSerializer_writable),
                     [review |-> review_id, author |-> caller])
    IN [id |-> nextId.comment, author |-> attrs.author,
        review |-> attrs.review, text |-> attrs.text]

\* The response of POST /titles/{title_id}/reviews/{review_id}/comments/:
\* check_permissions, the field pass, CommentSerializer.validate (api/v1
\* only: NotFound unless the review is one of the title), then get_review in
\* perform_create, which looks the review up by its id alone.
CommentViewSet_create_response(caller, title_id, review_id, body) ==
    IF ~ContentManagePermission_has_permission("POST", caller)
    THEN PermissionDenied(caller)
    ELSE IF CommentSerializer_field_errors(Field(body, "text"), FALSE) # {}
    THEN Response(400, CommentSerializer_field_errors(Field(body, "text"), FALSE))
    ELSE IF draft = "v1" /\ ~ReviewOfTitleExists(title_id, review_id)
    THEN NotFound
    ELSE IF ~\E r \in reviews : r.id = review_id
    THEN NotFound
    ELSE Response(201, {})

\* One request to ReviewViewSet or CommentViewSet served: r is the answer,
\* rs and cs the tables after it.
ServeFeedback(op, caller, r, rs, cs) ==
    /\ Cardinality(rs) > Cardinality(reviews) => nextId.review <= MaxReviewId
    /\ Cardinality(cs) > Cardinality(comments) => nextId.comment <= MaxCommentId
    /\ reviews' = rs
    /\ comments' = cs
    /\ nextId' = [nextId EXCEPT
                    !.review = IF Cardinality(rs) > Cardinality(reviews)
                               THEN @ + 1 ELSE @,
                    !.comment = IF Cardinality(cs) > Cardinality(comments)
                                THEN @ + 1 ELSE @]
    /\ resp' = [op |-> op, status |-> r.status, errors |-> r.errors,
                body |-> r.body, caller |-> caller]
    /\ outbox' = <<>>
    /\ UNCHANGED <<inflight, draft, now, users, categories, genres, titles>>

\* POST /titles/{title_id}/reviews/ with a body.
ReviewViewSet_create_from(caller, title_id, body) ==
    LET r == ReviewViewSet_create_response(
                 caller, title_id, Field(body, "text"), Field(body, "score"))
    IN ServeFeedback(
           "review_create", caller, r,
           IF r.status = 201
           THEN reviews \cup {ReviewViewSet_perform_create(caller, title_id, body)}
           ELSE reviews,
           comments)

\* POST /titles/{title_id}/reviews/{review_id}/comments/ with a body.
CommentViewSet_create(caller, title_id, review_id, body) ==
    LET r == CommentViewSet_create_response(caller, title_id, review_id, body)
    IN ServeFeedback(
           "comment_create", caller, r, reviews,
           IF r.status = 201
           THEN comments
                \cup {CommentViewSet_perform_create(caller, review_id, body)}
           ELSE comments)

-----------------------------------------------------------------------------
(* The specification of authorship: reviews and comments are posted with   *)
(* bodies that name an author, a title and a review                        *)

ReviewPostBodies ==
    {[text |-> "good", score |-> "10"],
     [text |-> "good", score |-> "10", author |-> 2, title |-> 2],
     [text |-> "good", score |-> "10", author |-> 1, title |-> 1],
     [text |-> "good"]}

CommentPostBodies ==
    {[text |-> "yes"], [text |-> "yes", author |-> 2, review |-> 2],
     [text |-> "yes", author |-> 1, review |-> 1], [author |-> 2]}

ReviewPost ==
    \E caller \in Callers, title_id \in {1, 2} :
        \E body \in IF ContentManagePermission_has_permission("POST", caller)
                    THEN ReviewPostBodies ELSE {Unread} :
            ReviewViewSet_create_from(caller, title_id, body)

CommentPost ==
    \E caller \in Callers, review_id \in PathReviewIds :
        \E title_id \in {r.title : r \in {x \in reviews : x.id = review_id}}
                            \cup {1},
           body \in IF ContentManagePermission_has_permission("POST", caller)
                    THEN CommentPostBodies ELSE {Unread} :
            CommentViewSet_create(caller, title_id, review_id, body)

NextAuthorship == ReviewPost \/ CommentPost

SpecAuthorship == Init /\ [][NextAuthorship]_vars

\* C22: a review created by POST /titles/T/reviews/ is stored with the
\* requesting user as author and T as title, and a comment created by POST
\* /titles/T/reviews/R/comments/ with the requesting user as author and R
\* as review, whatever author, title or review the body names.
C22_AuthorAndParentFromRequest ==
    /\ [](\A caller \in Callers \ {Anonymous} :
            /\ \A title_id \in PathTitleIds, body \in ReviewPostBodies :
                Has(body, "score") =>
                    LET row == ReviewViewSet_perform_create(caller, title_id, body)
                    IN row.author = caller /\ row.title = title_id
            /\ \A review_id \in PathReviewIds, body \in CommentPostBodies :
                Has(body, "text") =>
                    LET row == CommentViewSet_perform_create(
                                   caller, review_id, body)
                    IN row.author = caller /\ row.review = review_id)
    /\ [][resp'.status = 201 =>
            /\ \A r \in reviews' \ reviews : r.author = resp'.caller
            /\ \A c \in comments' \ comments : c.author = resp'.caller]_vars

\* alice and the moderator each have a review on another title than the
\* other, and each has a comment.
C22_Witness ==
    /\ resp.op = "comment_create"
    /\ resp.status = 201
    /\ \E r1, r2 \in reviews : r1.author = 1 /\ r2.author = 2 /\ r1.title # r2.title
    /\ \E c1, c2 \in comments : c1.author = 1 /\ c2.author = 2

-----------------------------------------------------------------------------
(* Requests served at the same time: each worker runs serializer.is_valid  *)
(* and the write of its request as two steps, and the steps of different   *)
(* requests interleave                                                     *)

\* The workers of the server; each serves one request at a time.
Requests == {"w1", "w2"}

Idle(req) == \A q \in inflight : q.req # req

InFlight(req, op, caller, title_id, text, score, username, email) ==
    [req |-> req, op |-> op, caller |-> caller, title |-> title_id,
     text |-> text, score |-> score, username |-> username, email |-> email]

\* One step of a worker: what it answers (Null while the request is still in
\* flight) and what it leaves in the tables.
Step(op, req, caller, r, rs, us, mails, flying) ==
    /\ Cardinality(rs) > Cardinality(reviews) => nextId.review <= MaxReviewId
    /\ Cardinality(us) > Cardinality(users) => nextId.user <= MaxUserId
    /\ reviews' = rs
    /\ users' = us
    /\ outbox' = mails
    /\ inflight' = flying
    /\ nextId' = [nextId EXCEPT
                    !.review = IF Cardinality(rs) > Cardinality(reviews)
                               THEN @ + 1 ELSE @,
                    !.user = IF Cardinality(us) > Cardinality(users)
                             THEN @ + 1 ELSE @]
    /\ resp' = [op |-> op, caller |-> caller, status |-> r.status,
                errors |-> r.errors, body |-> r.body]
    /\ UNCHANGED <<draft, now, categories, genres, titles, comments>>

\* The answer of a step that leaves its request in flight.
Pending == Response(Null, {})

\* CreateModelMixin.create of ReviewViewSet up to and with
\* serializer.is_valid(raise_exception=True): the permission, the fields and
\* validate, whose duplicate check reads the reviews stored at that moment.
ReviewViewSet_create_is_valid(req, caller, title_id, text, score) ==
    LET r == ReviewViewSet_create_response(caller, title_id, text, score) IN
    /\ Idle(req)
    /\ IF r.status = 201
       THEN Step("review_is_valid", req, caller, Pending, reviews, users, <<>>,
                 inflight \cup {InFlight(req, "review_create", caller, title_id,
                                         text, score, Null, Null)})
       ELSE Step("review_create", req, caller, r, reviews, users, <<>>,
                 inflight)

\* What perform_create answers for a request that passed is_valid: get_title,
\* then the INSERT, which raises IntegrityError when the row breaks
\* unique_review; the view catches nothing.
ReviewViewSet_perform_create_response(q) ==
    IF ~TitleExists(q.title)
    THEN NotFound
    ELSE IF ~unique_review(
                reviews \cup {NewReview(q.caller, q.title, q.text, q.score)})
    THEN ServerError
    ELSE Response(201, {})

\* CreateModelMixin.create of ReviewViewSet from perform_create on.
ReviewViewSet_create_save(q) ==
    LET r == ReviewViewSet_perform_create_response(q) IN
    /\ q.op = "review_create"
    /\ Step("review_create", q.req, q.caller, r,
            IF r.status = 201
            THEN reviews \cup {NewReview(q.caller, q.title, q.text, q.score)}
            ELSE reviews,
            users, <<>>, inflight \ {q})

\* signup (api/v1) and SignUpViewSet.create (api) up to and with
\* serializer.is_valid(raise_exception=True).
signup_is_valid_errors(username, email) ==
    IF draft = "v1"
    THEN IF v1_SignUpSerializer_field_errors(Trim(username), Trim(email)) # {}
         THEN v1_SignUpSerializer_field_errors(Trim(username), Trim(email))
         ELSE v1_SignUpSerializer_validate(Trim(username), Trim(email))
    ELSE IF api_SignUpSerializer_field_errors(Trim(username), Trim(email)) # {}
         THEN api_SignUpSerializer_field_errors(Trim(username), Trim(email))
         ELSE api_SignUpSerializer_validate(Trim(username), Trim(email))

signup_is_valid(req, username, email) ==
    LET errors == signup_is_valid_errors(username, email) IN
    /\ Idle(req)
    /\ IF errors = {}
       THEN Step("signup_is_valid", req, Anonymous, Pending, reviews, users,
                 <<>>,
                 inflight \cup {InFlight(req, "signup", Anonymous, Null, Null,
                                         Null, username, email)})
       ELSE Step("signup", req, Anonymous, Response(400, errors), reviews,
                 users, <<>>, inflight)

\* signup (api/v1) after is_valid: get_or_create over request.data,
\* make_token, send_mail.  SignUpViewSet.create (api) after is_valid:
\* SignUpSerializer.create.  An IntegrityError of the INSERT is caught by
\* neither.
signup_save_outcome(username, email, code) ==
    LET got == IF draft = "v1"
               THEN v1_get_or_create(username, email, code)
               ELSE api_get_or_create(Trim(username), Trim(email), code)
        user == IF draft = "v1"
                THEN got.user
                ELSE [got.user EXCEPT !.confirmation_code = code]
    IN
    IF ~got.ok
    THEN Refused(ServerError)
    ELSE Outcome(
             Success(200, [username |-> Trim(username), email |-> Trim(email)]),
             IF got.created
             THEN users \cup {user}
             ELSE {IF u.id = user.id THEN user ELSE u : u \in users},
             <<Mail(user.email,
                    IF draft = "v1" THEN make_token(user)
                    ELSE user.confirmation_code)>>)

signup_save(q, code) ==
    LET o == signup_save_outcome(q.username, q.email, code) IN
    /\ q.op = "signup"
    /\ Step("signup", q.req, Anonymous, o.resp, reviews, o.users, o.outbox,
            inflight \ {q})

-----------------------------------------------------------------------------
(* The specification of concurrent writes                                  *)

RaceUsernames == {"carol", "dave"}
RaceEmails == {"carol@x.org", "dave@x.org"}
RaceScores == {"10", "11"}
RaceTitleIds == {1}

ReviewIsValid ==
    \E req \in Requests, caller \in Callers, title_id \in RaceTitleIds,
       score \in RaceScores :
        ReviewViewSet_create_is_valid(req, caller, title_id, "good", score)

ReviewSave == \E q \in inflight : ReviewViewSet_create_save(q)

SignupIsValid ==
    \E req \in Requests, username \in RaceUsernames, email \in RaceEmails :
        signup_is_valid(req, username, email)

SignupSave == \E q \in inflight : signup_save(q, UserCode)

NextRace == ReviewIsValid \/ ReviewSave \/ SignupIsValid \/ SignupSave

SpecRace == Init /\ [][NextRace]_vars

\* Two creates of one user for one title that both passed the duplicate
\* check, the first of which has saved.
LostReviewRace(q) ==
    /\ q.op = "review_create"
    /\ \E r \in reviews : r.author = q.caller /\ r.title = q.title

\* A signup that passed is_valid and whose username or email another signup
\* has stored since, for another account.
LostSignupRace(q) ==
    /\ q.op = "signup"
    /\ \E u \in users :
        /\ u.username = q.username \/ u.email = q.email
        /\ ~(u.username = q.username /\ u.email = q.email)

\* C23: under every interleaving of the duplicate checks and the saves of
\* concurrent creates, no user has two stored reviews of one title: a create
\* that passed the check after which another review of the user for the
\* title was saved stores nothing.
C23_OneReviewUnderRaces ==
    /\ [](\A r1, r2 \in reviews :
            (r1.author = r2.author /\ r1.title = r2.title) => r1.id = r2.id)
    /\ [](\A q \in inflight :
            LostReviewRace(q) =>
                ReviewViewSet_perform_create_response(q).status # 201)

\* The second of two concurrent creates has been answered after the first
\* was stored, and stored nothing.
C23_Witness ==
    /\ resp.op = "review_create"
    /\ resp.status = 500
    /\ Cardinality({r \in reviews : r.author = resp.caller}) = 1
    /\ inflight = {}

\* C24: a write that loses a race on a uniqueness constraint is answered 400.
C24_LoserAnswered400 ==
    [](\A q \in inflight :
        /\ LostReviewRace(q) =>
              ReviewViewSet_perform_create_response(q).status = 400
        /\ LostSignupRace(q) =>
              signup_save_outcome(q.username, q.email, UserCode).resp.status
                  = 400)

-----------------------------------------------------------------------------
(* The confirmation code over several requests of the account              *)
(* specification                                                           *)

\* The step was a token exchange that returned the token r holds.
Exchanged(r) ==
    /\ r.status = 200
    /\ resp'.op = "token"
    /\ resp'.status = 200
    /\ resp'.body = r.body

\* The step was a successful signup for the account of the username.
SignedUp(username) ==
    /\ resp'.op = "signup"
    /\ resp'.status = 200
    /\ resp'.body.username = Trim(username)

\* C25: the confirmation code is one-time: from the state a token exchange
\* with a username and a code left after it returned a token, an exchange
\* with the same username and code is not accepted.
C25_CodeIsOneTime ==
    [][\A username \in UsernameInputs, code \in CodeInputs :
         Exchanged(TokenResponse(username, code))
             => TokenResponse(username, code)'.status # 200]_vars

\* C26: right after a successful signup one mail is in the outbox, it is
\* addressed to the email of the account, and a token exchange with the
\* username and the code of the mail returns the token of the account; and a
\* code that an exchange would accept keeps being accepted over every
\* request that is not a successful signup for the same account.
C26_SignupThenToken ==
    /\ []((resp.op = "signup" /\ resp.status = 200) =>
            /\ Len(outbox) = 1
            /\ \E u \in users :
                /\ Trim(u.username) = resp.body.username
                /\ outbox[1].to = u.email
                /\ TokenResponse(u.username, outbox[1].code)
                       = Success(200, AccessToken_for_user(u)))
    /\ [][\A username \in UsernameInputs, code \in CodeInputs :
            (TokenResponse(username, code).status = 200 /\ ~SignedUp(username))
                => TokenResponse(username, code)'.status = 200]_vars

-----------------------------------------------------------------------------
(* CommentViewSet: list and retrieve; the specification of comment paths   *)

\* The response of GET /titles/{title_id}/reviews/{review_id}/comments/:
\* get_queryset filters by get_review(), which looks the review up by its id
\* alone in both drafts.  The body is the set of the ids listed.
CommentViewSet_list_response(caller, title_id, review_id) ==
    IF ~ContentManagePermission_has_permission("GET", caller)
    THEN PermissionDenied(caller)
    ELSE IF ~\E r \in reviews : r.id = review_id
    THEN NotFound
    ELSE Success(200, {c.id : c \in CommentsOfReview(review_id)})

\* The response of GET /titles/{title_id}/reviews/{review_id}/comments/{pk}/.
CommentViewSet_retrieve_response(caller, title_id, review_id, pk) ==
    LET got == CommentViewSet_get_object("GET", caller, title_id, review_id, pk)
    IN IF got.status # 200 THEN got ELSE Success(200, {pk})

\* alice reviewed the first title and the moderator the second.
PathSeedReviews ==
    {[id |-> 1, author |-> 1, title |-> 1, text |-> "good", score |-> 7],
     [id |-> 2, author |-> 2, title |-> 2, text |-> "fine", score |-> 4]}

\* The moderator commented on the review of alice.
PathSeedComments == {[id |-> 1, author |-> 2, review |-> 1, text |-> "yes"]}

InitPaths ==
    /\ draft \in Drafts
    /\ inflight = {}
    /\ now = 2024
    /\ users = SeedUsers
    /\ categories = SeedCategories
    /\ genres = SeedGenres
    /\ titles = SeedTitles
    /\ reviews = PathSeedReviews
    /\ comments = PathSeedComments
    /\ outbox = <<>>
    /\ nextId = [user |-> 3, title |-> 3, review |-> 3, comment |-> 2]
    /\ resp = NoResp

CommentList ==
    \E caller \in Callers, title_id \in {1, 2}, review_id \in PathReviewIds :
        ServeFeedback("comment_list", caller,
                      CommentViewSet_list_response(caller, title_id, review_id),
                      reviews, comments)

CommentRetrieve ==
    \E caller \in Callers, title_id \in {1, 2}, review_id \in PathReviewIds,
       pk \in PathCommentIds :
        ServeFeedback("comment_retrieve", caller,
                      CommentViewSet_retrieve_response(
                          caller, title_id, review_id, pk),
                      reviews, comments)

NextPaths ==
    CommentList \/ CommentRetrieve \/ CommentPost \/ CommentPartialUpdate
        \/ CommentDestroy

SpecPaths == InitPaths /\ [][NextPaths]_vars

\* The path names a review that is not one of its title.
ForeignReview(title_id, review_id) == ~ReviewOfTitleExists(title_id, review_id)

\* The path names a review of its title and a comment that is not one of the
\* review.
ForeignComment(title_id, review_id, pk) ==
    /\ ReviewOfTitleExists(title_id, review_id)
    /\ ~\E c \in CommentsOfReview(review_id) : c.id = pk

Permitted(method, caller) == ContentManagePermission_has_permission(method, caller)

\* C27: every comment operation of a caller the view admits, with a body the
\* fields accept, is answered 404 and leaves the comments as they are when
\* the review of the path is not one of the title of the path, and so is
\* every operation on one comment when the comment is not one of the review.
C27_ForeignPathsNotFound ==
    \A caller \in Callers, title_id \in {1, 2}, review_id \in PathReviewIds :
        /\ (ForeignReview(title_id, review_id) /\ Permitted("GET", caller)) =>
              CommentViewSet_list_response(caller, title_id, review_id).status
                  = 404
        /\ (ForeignReview(title_id, review_id) /\ Permitted("POST", caller)) =>
              CommentViewSet_create_response(
                  caller, title_id, review_id, [text |-> "yes"]).status = 404
        /\ \A pk \in PathCommentIds :
              (\/ ForeignReview(title_id, review_id)
               \/ ForeignComment(title_id, review_id, pk)) =>
                  /\ Permitted("GET", caller) =>
                        CommentViewSet_retrieve_response(
                            caller, title_id, review_id, pk).status = 404
                  /\ Permitted("PATCH", caller) =>
                        LET r == CommentViewSet_partial_update_response(
                                     caller, title_id, review_id, pk, "edited")
                        IN /\ r.status = 404
                           /\ CommentViewSet_partial_update_comments(
                                  r, pk, "edited") = comments
                  /\ Permitted("DELETE", caller) =>
                        LET r == CommentViewSet_destroy_response(
                                     caller, title_id, review_id, pk)
                        IN /\ r.status = 404
                           /\ CommentViewSet_destroy_comments(r, pk) = comments

-----------------------------------------------------------------------------
(* ReviewViewSet: list and retrieve; the review paths                      *)

\* The response of GET /titles/{title_id}/reviews/: get_queryset is
\* Review.objects.filter(title=self.get_title()).  The body is the set of
\* the ids listed.
ReviewViewSet_list_response(caller, title_id) ==
    IF ~ContentManagePermission_has_permission("GET", caller)
    THEN PermissionDenied(caller)
    ELSE IF ~TitleExists(title_id)
    THEN NotFound
    ELSE Success(200, {r.id : r \in ReviewsOfTitle(title_id)})

\* The response of GET /titles/{title_id}/reviews/{pk}/.
ReviewViewSet_retrieve_response(caller, title_id, pk) ==
    LET got == ReviewViewSet_get_object("GET", caller, title_id, pk) IN
    IF got.status # 200 THEN got ELSE Success(200, {pk})

ReviewList ==
    \E caller \in Callers, title_id \in PathTitleIds :
        ServeFeedback("review_list", caller,
                      ReviewViewSet_list_response(caller, title_id),
                      reviews, comments)

ReviewRetrieve ==
    \E caller \in Callers, title_id \in PathTitleIds, pk \in PathReviewIds :
        ServeFeedback("review_retrieve", caller,
                      ReviewViewSet_retrieve_response(caller, title_id, pk),
                      reviews, comments)

ReviewPathCreate ==
    \E caller \in Callers, title_id \in PathTitleIds :
        ReviewViewSet_create(caller, title_id, "good", "10")

ReviewPathPartialUpdate ==
    \E caller \in Callers, title_id \in PathTitleIds, pk \in PathReviewIds :
        ReviewViewSet_partial_update(caller, title_id, pk, Missing, "1")

NextReviewPaths ==
    ReviewList \/ ReviewRetrieve \/ ReviewPathCreate \/ ReviewPathPartialUpdate
        \/ ReviewDestroy

SpecReviewPaths == Init /\ [][NextReviewPaths]_vars

\* The review of the path is stored under another title than the path names.
ReviewOfAnotherTitle(title_id, pk) ==
    \E r \in reviews : r.id = pk /\ r.title # title_id

ReviewOps ==
    {"review_list", "review_retrieve", "review_create",
     "review_partial_update", "review_destroy"}

\* What retrieve, patch and delete of the path answer, and the reviews they
\* leave.
ReviewDetailOutcomes(caller, title_id, pk, text, score) ==
    LET p == ReviewViewSet_partial_update_response(
                 caller, title_id, pk, text, score)
        d == ReviewViewSet_destroy_response(caller, title_id, pk)
    IN {<<"GET", ReviewViewSet_retrieve_response(caller, title_id, pk).status,
          reviews>>,
        <<"PATCH", p.status,
          ReviewViewSet_partial_update_reviews(p, pk, text, score)>>,
        <<"DELETE", d.status, ReviewViewSet_destroy_reviews(d, pk)>>}

\* The list of a title holds exactly the reviews stored for it.
ListsReviewsOfTitle ==
    \A caller \in Callers, title_id \in PathTitleIds :
        TitleExists(title_id) =>
            ReviewViewSet_list_response(caller, title_id)
                = Success(200, {r.id : r \in {x \in reviews : x.title = title_id}})

\* C28 as stated: the list of /titles/T/reviews/ holds exactly the stored
\* reviews of T; retrieve, patch and delete of a review of another title are
\* answered 404 and leave the reviews; every review operation under a title
\* id that is not stored is answered 404, whoever calls and whatever the
\* body.
C28_EveryOperationNotFound ==
    /\ ListsReviewsOfTitle
    /\ \A caller \in Callers, title_id \in PathTitleIds, pk \in PathReviewIds,
          text \in TextInputs, score \in ScoreInputs :
        /\ (ReviewOfAnotherTitle(title_id, pk) \/ ~TitleExists(title_id)) =>
              \A o \in ReviewDetailOutcomes(caller, title_id, pk, text, score) :
                  o[2] = 404 /\ o[3] = reviews
        /\ ~TitleExists(title_id) =>
              /\ ReviewViewSet_list_response(caller, title_id).status = 404
              /\ ReviewViewSet_create_response(
                     caller, title_id, text, score).status = 404

\* C28, for the callers the permission of the view admits and the bodies the
\* fields accept: the list of /titles/T/reviews/ holds exactly the stored
\* reviews of T; retrieve, patch and delete of a review of another title are
\* answered 404 and leave the reviews; every review operation under a title
\* id that is not stored is answered 404 and leaves the reviews.  A caller
\* the permission refuses is answered 401 or 403 first, and a create whose
\* fields are invalid 400.
C28_ReviewsScopedToTitle ==
    /\ [](ListsReviewsOfTitle)
    /\ [](\A caller \in Callers, title_id \in PathTitleIds,
             pk \in PathReviewIds, text \in TextInputs, score \in ScoreInputs :
            /\ (ReviewOfAnotherTitle(title_id, pk) \/ ~TitleExists(title_id)) =>
                  \A o \in ReviewDetailOutcomes(
                               caller, title_id, pk, text, score) :
                      /\ o[2] = IF Permitted(o[1], caller) THEN 404
                                ELSE PermissionDenied(caller).status
                      /\ o[3] = reviews
            /\ ~TitleExists(title_id) =>
                  /\ ReviewViewSet_list_response(caller, title_id).status = 404
                  /\ LET r == ReviewViewSet_create_response(
                                  caller, title_id, text, score)
                     IN /\ ReviewViewSet_create_reviews(
                               r, caller, title_id, text, score) = reviews
                        /\ r.status =
                              IF ~Permitted("POST", caller)
                              THEN PermissionDenied(caller).status
                              ELSE IF ReviewSerializer_field_errors(
                                          text, score, FALSE) # {}
                              THEN 400
                              ELSE 404)
    /\ [][(resp'.op \in ReviewOps /\ resp'.status = 404)
            => reviews' = reviews]_vars

\* The list of the first title was answered with its one review while the
\* second title had a review too.
C28_Witness ==
    /\ resp.op = "review_list"
    /\ resp.status = 200
    /\ \E r1, r2 \in reviews :
        /\ r1.title = 1
        /\ r2.title = 2
        /\ resp.body = {r1.id}

-----------------------------------------------------------------------------
(* The specification of deletions: titles, genres, users, reviews and      *)
(* comments are deleted from a database that holds reviews and comments    *)

IntegrityComments ==
    {[id |-> 1, author |-> 2, review |-> 1, text |-> "yes"],
     [id |-> 2, author |-> 1, review |-> 2, text |-> "no"]}

InitIntegrity ==
    /\ draft \in Drafts
    /\ inflight = {}
    /\ now = 2024
    /\ users = CatalogUsers
    /\ categories = SeedCategories
    /\ genres = SeedGenres
    /\ titles = SeedTitles
    /\ reviews = PathSeedReviews
    /\ comments = IntegrityComments
    /\ outbox = <<>>
    /\ nextId = [user |-> 5, title |-> 3, review |-> 3, comment |-> 3]
    /\ resp = NoResp

IntegrityUserDestroy ==
    \E caller \in Callers, username \in {"alice", "bob", "ghost"} :
        ServeUser("user_destroy", caller,
                  UserAdminViewSet_destroy(caller, username))

NextIntegrity ==
    TitleDestroy \/ GenreDestroy \/ IntegrityUserDestroy \/ ReviewDestroy
        \/ CommentDestroy

SpecIntegrity == InitIntegrity /\ [][NextIntegrity]_vars

Ids(rows) == {x.id : x \in rows}

\* Every review names a stored title and a stored user, every comment a
\* stored review and a stored user.
ReferentialIntegrity ==
    /\ \A r \in reviews : r.title \in Ids(titles) /\ r.author \in Ids(users)
    /\ \A c \in comments : c.review \in Ids(reviews) /\ c.author \in Ids(users)

\* The step answered a DELETE of the kind op with 204.
Deleted(op) == resp'.op = op /\ resp'.status = 204

\* C29: in every reachable state every review references a stored title and
\* a stored user and every comment a stored review and a stored user;
\* deleting a title removes its reviews and their comments, deleting a
\* review removes its comments, deleting a user removes the reviews and the
\* comments of the user (and the comments on those reviews), and deleting a
\* genre removes the genre and its links and no title, review or comment.
C29_ReferentialIntegrity ==
    /\ [](ReferentialIntegrity)
    /\ [][Deleted("title_destroy") =>
            /\ Cardinality(titles \ titles') = 1
            /\ reviews' = {r \in reviews : r.title \in Ids(titles')}
            /\ comments' = {c \in comments : c.review \in Ids(reviews')}
            /\ users' = users]_vars
    /\ [][Deleted("review_destroy") =>
            /\ Cardinality(reviews \ reviews') = 1
            /\ reviews' \subseteq reviews
            /\ comments' = {c \in comments : c.review \in Ids(reviews')}
            /\ titles' = titles
            /\ users' = users]_vars
    /\ [][Deleted("user_destroy") =>
            /\ Cardinality(users \ users') = 1
            /\ reviews' = {r \in reviews : r.author \in Ids(users')}
            /\ comments' = {c \in comments : /\ c.author \in Ids(users')
                                             /\ c.review \in Ids(reviews')}
            /\ titles' = titles]_vars
    /\ [][Deleted("genre_destroy") =>
            /\ Cardinality(genres \ genres') = 1
            /\ genres' \subseteq genres
            /\ Ids(titles') = Ids(titles)
            /\ \A t \in titles : \E n \in titles' :
                /\ n = [t EXCEPT !.genre = n.genre]
                /\ n.genre = t.genre \cap {g.slug : g \in genres'}
            /\ reviews' = reviews
            /\ comments' = comments
            /\ users' = users]_vars

\* The moderator was deleted: the review and the comment of the moderator
\* and the comment of alice on that review are gone, the review of alice is
\* left without comments.
C29_Witness ==
    /\ resp.op = "user_destroy"
    /\ resp.status = 204
    /\ 2 \notin Ids(users)
    /\ Ids(reviews) = {1}
    /\ comments = {}
    /\ Ids(titles) = {1, 2}

-----------------------------------------------------------------------------
(* IsUserPermissions.has_object_permission; the two drafts of              *)
(* permissions.py, applied to every method, caller and object              *)

\* request.user == obj; AnonymousUser equals no stored user.
v1_IsUserPermissions_has_object_permission(caller, obj) == caller = obj.id

api_IsUserPermissions_has_object_permission(caller, obj) == caller = obj.id

IsUserPermissions_has_object_permission(caller, obj) ==
    IF draft = "v1"
    THEN v1_IsUserPermissions_has_object_permission(caller, obj)
    ELSE api_IsUserPermissions_has_object_permission(caller, obj)

Methods == SAFE_METHODS \cup {"POST", "PUT", "PATCH", "DELETE"}

\* One account of every role with and without the superuser flag.
PermissionUsers ==
    {Account(1, "alice", "alice@x.org", USER, FALSE, "k1"),
     Account(2, "bob", "bob@x.org", MODERATOR, FALSE, "k1"),
     Account(3, "carol", "carol@x.org", ADMIN, FALSE, "k1"),
     Account(4, "dave", "dave@x.org", USER, TRUE, "k1"),
     Account(5, "erin", "erin@x.org", MODERATOR, TRUE, "k1"),
     Account(6, "frank", "frank@x.org", ADMIN, TRUE, "k1")}

InitPermissions ==
    /\ draft \in Drafts
    /\ inflight = {}
    /\ now = 2024
    /\ users = PermissionUsers
    /\ categories = {}
    /\ genres = {}
    /\ titles = {}
    /\ reviews = {}
    /\ comments = {}
    /\ outbox = <<>>
    /\ nextId = [user |-> 7, title |-> 1, review |-> 1, comment |-> 1]
    /\ resp = NoResp

\* APIView.check_permissions and check_object_permissions with one
\* permission class: the request goes on (200) or is refused.
Decide(class, method, caller, target, granted) ==
    /\ resp' = [op |-> class, method |-> method, caller |-> caller,
                target |-> target,
                status |-> IF granted THEN 200
                           ELSE PermissionDenied(caller).status,
                errors |-> {}, body |-> Null]
    /\ outbox' = <<>>
    /\ UNCHANGED <<inflight, draft, now, users, categories, genres, titles,
                   reviews, comments, nextId>>

CheckIsAdminOrReadOnly ==
    \E method \in Methods, caller \in Callers :
        Decide("IsAdminOrReadOnly", method, caller, Anonymous,
               IsAdminOrReadOnly_has_permission(method, caller))

CheckContentManagePermission ==
    \E method \in Methods, caller \in Callers, author \in Ids(users) :
        Decide("ContentManagePermission", method, caller, author,
               /\ ContentManagePermission_has_permission(method, caller)
               /\ ContentManagePermission_has_object_permission(
                      method, caller, [author |-> author]))

CheckIsAdminPermission ==
    \E method \in Methods, caller \in Callers :
        Decide("IsAdminPermission", method, caller, Anonymous,
               IsAdminPermission_has_permission(caller))

CheckIsUserPermissions ==
    \E method \in Methods, caller \in Callers, obj \in users :
        Decide("IsUserPermissions", method, caller, obj.id,
               /\ IsUserPermissions_has_permission(caller)
               /\ IsUserPermissions_has_object_permission(caller, obj))

NextPermissions ==
    CheckIsAdminOrReadOnly \/ CheckContentManagePermission
        \/ CheckIsAdminPermission \/ CheckIsUserPermissions

SpecPermissions == InitPermissions /\ [][NextPermissions]_vars

\* What api/v1/permissions.py decides for the request of resp, and what
\* api/permissions.py decides for it.
v1_Grants(q) ==
    IF q.op = "IsAdminOrReadOnly"
    THEN v1_IsAdminOrReadOnly_has_permission(q.method, q.caller)
    ELSE IF q.op = "ContentManagePermission"
    THEN /\ v1_ContentManagePermission_has_permission(q.method, q.caller)
         /\ v1_ContentManagePermission_has_object_permission(
                q.method, q.caller, [author |-> q.target])
    ELSE IF q.op = "IsAdminPermission"
    THEN v1_IsAdminPermission_has_permission(q.caller)
    ELSE /\ IsUserPermissions_has_permission(q.caller)
         /\ v1_IsUserPermissions_has_object_permission(
                q.caller, [id |-> q.target])

api_Grants(q) ==
    IF q.op = "IsAdminOrReadOnly"
    THEN api_IsAdminOrReadOnly_has_permission(q.method, q.caller)
    ELSE IF q.op = "ContentManagePermission"
    THEN /\ api_ContentManagePermission_has_permission(q.method, q.caller)
         /\ api_ContentManagePermission_has_object_permission(
                q.method, q.caller, [author |-> q.target])
    ELSE IF q.op = "IsAdminPermission"
    THEN api_IsAdminPermission_has_permission(q.caller)
    ELSE /\ IsUserPermissions_has_permission(q.caller)
         /\ api_IsUserPermissions_has_object_permission(
                q.caller, [id |-> q.target])

\* C30: for every HTTP method, every caller (anonymous, or of any role with
\* or without the superuser flag) and every author of the target, each
\* method of IsAdminOrReadOnly, ContentManagePermission, IsAdminPermission
\* and IsUserPermissions in api/permissions.py grants exactly when the same
\* method in api/v1/permissions.py grants, and every decision served is the
\* decision of both files.
C30_DraftsDecideAlike ==
    /\ [](\A method \in Methods, caller \in Callers :
            /\ v1_IsAdminOrReadOnly_has_permission(method, caller)
                   <=> api_IsAdminOrReadOnly_has_permission(method, caller)
            /\ v1_ContentManagePermission_has_permission(method, caller)
                   <=> api_ContentManagePermission_has_permission(method, caller)
            /\ v1_IsAdminPermission_has_permission(caller)
                   <=> api_IsAdminPermission_has_permission(caller)
            /\ \A obj \in users :
                /\ v1_ContentManagePermission_has_object_permission(
                       method, caller, [author |-> obj.id])
                       <=> api_ContentManagePermission_has_object_permission(
                               method, caller, [author |-> obj.id])
                /\ v1_IsUserPermissions_has_object_permission(caller, obj)
                       <=> api_IsUserPermissions_has_object_permission(
                               caller, obj))
    /\ [][/\ (resp'.status = 200) <=> v1_Grants(resp')
          /\ (resp'.status = 200) <=> api_Grants(resp')]_vars

\* A superuser whose role is user was let through IsAdminOrReadOnly for a
\* DELETE: the case api/permissions.py spells out with is_superuser and
\* api/v1/permissions.py leaves to is_admin.
C30_Witness ==
    /\ resp.op = "IsAdminOrReadOnly"
    /\ resp.method = "DELETE"
    /\ resp.caller = 4
    /\ resp.status = 200

=============================================================================
